---- MODULE Spec2Model ----
(***************************************************************************)
(* Run-length / bit-packed hybrid codec for booleans (util/rle-encoding.h). *)
(* An RleEncoder is fed the values of an input chosen in the initial state, *)
(* flushed, and the bytes it wrote are read back by an RleDecoder through   *)
(* Get, GetNextRun and Skip.                                                *)
(***************************************************************************)
EXTENDS Integers, Sequences, FiniteSets, TLC

VARIABLES
    plan,       \* the boolean sequence the caller is going to encode
    nput,       \* how many values of plan have been handed to Put
    phase,      \* "encode" until Flush has run, "decode" afterwards; "abort" once a
                \* DCHECK has failed, "stuck" in a call that never returns
    enc,        \* the RleEncoder's fields (bit_writer_ included)
    flushed,    \* the value returned by Flush
    dec,        \* the RleDecoder's fields (bit_reader_ included)
    consumed,   \* number of values the decoder has consumed so far
    op,         \* the last call: its name, its arguments and its results
    hist,       \* the decoder call made before the last one: its name and results
    ndebug,     \* TRUE: built with NDEBUG, the DCHECKs are compiled out
    state_,     \* rw_spinlock: the lock word
    threads,    \* rw_spinlock: where each thread is in its call, and its locals
    locks_,     \* percpu_rwlock: the per-CPU locks
    callers     \* percpu_rwlock: where each thread is in its call, and its locals

vars == <<plan, nput, phase, enc, flushed, dec, consumed, op, hist, ndebug, state_, threads,
          locks_, callers>>

-----------------------------------------------------------------------------
(* Bounds of the model.                                                    *)

\* longest input enumerated exhaustively
MaxLen == 6
\* largest run_length argument of one Put call
MaxRun == 3
\* largest argument of one Skip call
MaxSkip == 10
\* largest number of 8-value groups of a long periodic input
MaxGroups == 128
\* longest byte sequence handed to a decoder as it is
MaxRawLen == 3
\* most bytes in the buffer after a Flush of an encoder that is flushed at any point
MaxFlushedBytes == 4

\* longest of the short inputs of an encoder that is flushed at any point
MaxEncLen == 5

-----------------------------------------------------------------------------
(* Arithmetic helpers.                                                     *)

Pow2(n) == 2 ^ n

B2I(b) == IF b THEN 1 ELSE 0

Min(a, b) == IF a < b THEN a ELSE b

\* BitmapSize(num_bits): bytes needed to hold num_bits bits
BitmapSize(num_bits) == (num_bits + 7) \div 8

-----------------------------------------------------------------------------
(* BitWriter: buffer holds the bytes written, the byte being filled        *)
(* included; bit_offset is the number of bits used in that last byte       *)
(* (0: the writer is on a byte boundary).                                  *)

BitWriter_Clear == [buffer |-> <<>>, bit_offset |-> 0]

BitWriter_PutBool(w, b) ==
    IF w.bit_offset = 0
    THEN [buffer |-> Append(w.buffer, B2I(b)), bit_offset |-> 1]
    ELSE [buffer |-> [w.buffer EXCEPT ![Len(w.buffer)] = @ + B2I(b) * Pow2(w.bit_offset)],
          bit_offset |-> (w.bit_offset + 1) % 8]

BitWriter_PutAligned(w, v) ==
    [buffer |-> Append(w.buffer, v), bit_offset |-> 0]

RECURSIVE BitWriter_PutVlqInt(_, _)
BitWriter_PutVlqInt(w, v) ==
    IF v >= 128
    THEN BitWriter_PutVlqInt(BitWriter_PutAligned(w, (v % 128) + 128), v \div 128)
    ELSE BitWriter_PutAligned(w, v % 128)

\* the index (0-based) of the byte reserved, and the writer past it
BitWriter_GetByteIndexAndAdvance(w) ==
    [index |-> Len(w.buffer), w |-> BitWriter_PutAligned(w, 0)]

BitWriter_Finish(w) ==
    [bytes |-> Len(w.buffer), w |-> [w EXCEPT !.bit_offset = 0]]

\* buffer()->data()[index] = v
BitWriter_SetByte(w, index, v) ==
    [w EXCEPT !.buffer[index + 1] = v]

-----------------------------------------------------------------------------
(* RleEncoder.                                                             *)

\* Clear leaves buffered_values_ as it is
RleEncoder_Clear(e) ==
    [current_value_ |-> FALSE,
     repeat_count_ |-> 0,
     num_buffered_values_ |-> 0,
     buffered_values_ |-> e.buffered_values_,
     literal_count_ |-> 0,
     literal_indicator_byte_ |-> -1,
     bit_writer_ |-> BitWriter_Clear,
     \* history: num_groups of every literal indicator written since Clear
     written_groups |-> <<>>,
     \* history: the lines of the DCHECKs met since Clear whose condition was
     \* true, and of those whose condition was false (where a build with
     \* DCHECKs aborts; the encoder is followed in a build without them)
     dchecks_passed |-> {},
     dchecks_failed |-> {}]

\* the constructor: Clear on an object whose buffered_values_ is not initialized;
\* no entry of it is read before Put has written it
RleEncoder_New == RleEncoder_Clear([buffered_values_ |-> [i \in 0..7 |-> FALSE]])

\* DCHECK(cond) at the given line of rle-encoding.h
DCheck(e, line, cond) ==
    IF cond
    THEN [e EXCEPT !.dchecks_passed = @ \cup {line}]
    ELSE [e EXCEPT !.dchecks_failed = @ \cup {line}]

RECURSIVE PutBuffered(_, _, _, _)
\* for (i = 0; i < num_buffered_values_; ++i) bit_writer_.PutBool(buffered_values_[i])
PutBuffered(w, vals, i, n) ==
    IF i < n THEN PutBuffered(BitWriter_PutBool(w, vals[i]), vals, i + 1, n) ELSE w

\* mutant: the indicator counts values instead of groups of 8
FlushLiteralRun_CountsValues(e, update_indicator_byte) ==
    LET r  == BitWriter_GetByteIndexAndAdvance(e.bit_writer_)
        e1 == IF e.literal_indicator_byte_ < 0
              THEN [e EXCEPT !.literal_indicator_byte_ = r.index, !.bit_writer_ = r.w]
              ELSE e
        e2 == [e1 EXCEPT !.bit_writer_ =
                             PutBuffered(e1.bit_writer_, e1.buffered_values_, 0,
                                         e1.num_buffered_values_),
                         !.num_buffered_values_ = 0]
        num_groups == e2.literal_count_
        indicator_value == (num_groups * 2) + 1
    IN  IF update_indicator_byte
        THEN [e2 EXCEPT !.bit_writer_ =
                            BitWriter_SetByte(e2.bit_writer_, e2.literal_indicator_byte_,
                                              indicator_value % 256),
                        !.literal_indicator_byte_ = -1,
                        !.literal_count_ = 0,
                        !.written_groups = Append(@, num_groups)]
        ELSE e2

\* mutant: a closed run's indicator byte stays reserved for the next run
FlushLiteralRun_KeepsIndicator(e, update_indicator_byte) ==
    LET r  == BitWriter_GetByteIndexAndAdvance(e.bit_writer_)
        e1 == IF e.literal_indicator_byte_ < 0
              THEN [e EXCEPT !.literal_indicator_byte_ = r.index, !.bit_writer_ = r.w]
              ELSE e
        e2 == [e1 EXCEPT !.bit_writer_ =
                             PutBuffered(e1.bit_writer_, e1.buffered_values_, 0,
                                         e1.num_buffered_values_),
                         !.num_buffered_values_ = 0]
        num_groups == BitmapSize(e2.literal_count_)
        indicator_value == (num_groups * 2) + 1
    IN  IF update_indicator_byte
        THEN [e2 EXCEPT !.bit_writer_ =
                            BitWriter_SetByte(e2.bit_writer_, e2.literal_indicator_byte_,
                                              indicator_value % 256),
                        !.literal_count_ = 0,
                        !.written_groups = Append(@, num_groups)]
        ELSE e2

\* mutant: a literal run is closed with one more group, of zero bits
FlushLiteralRun_ExtraGroup(e, update_indicator_byte) ==
    LET r  == BitWriter_GetByteIndexAndAdvance(e.bit_writer_)
        e1 == IF e.literal_indicator_byte_ < 0
              THEN [e EXCEPT !.literal_indicator_byte_ = r.index, !.bit_writer_ = r.w]
              ELSE e
        e2 == [e1 EXCEPT !.bit_writer_ =
                             PutBuffered(e1.bit_writer_, e1.buffered_values_, 0,
                                         e1.num_buffered_values_),
                         !.num_buffered_values_ = 0]
        num_groups == BitmapSize(e2.literal_count_) + 1
        indicator_value == (num_groups * 2) + 1
    IN  IF update_indicator_byte
        THEN [e2 EXCEPT !.bit_writer_ =
                            BitWriter_SetByte(BitWriter_PutAligned(e2.bit_writer_, 0),
                                              e2.literal_indicator_byte_,
                                              indicator_value % 256),
                        !.literal_indicator_byte_ = -1,
                        !.literal_count_ = 0,
                        !.written_groups = Append(@, num_groups)]
        ELSE e2

RleEncoder_FlushLiteralRun(e, update_indicator_byte) ==
    LET r  == BitWriter_GetByteIndexAndAdvance(e.bit_writer_)
        e1 == IF e.literal_indicator_byte_ < 0
              THEN DCheck([e EXCEPT !.literal_indicator_byte_ = r.index, !.bit_writer_ = r.w],
                          323, r.index >= 0)
              ELSE e
        e2 == [e1 EXCEPT !.bit_writer_ =
                             PutBuffered(e1.bit_writer_, e1.buffered_values_, 0,
                                         e1.num_buffered_values_),
                         !.num_buffered_values_ = 0]
        num_groups == BitmapSize(e2.literal_count_)
        indicator_value == (num_groups * 2) + 1
        e3 == DCheck(DCheck(e2, 338, num_groups < 128), 340, indicator_value < 128)
    IN  IF update_indicator_byte
        THEN [e3 EXCEPT !.bit_writer_ =
                            BitWriter_SetByte(e3.bit_writer_, e3.literal_indicator_byte_,
                                              indicator_value % 256),
                        !.literal_indicator_byte_ = -1,
                        !.literal_count_ = 0,
                        !.written_groups = Append(@, num_groups)]
        ELSE e2

\* mutant: the indicator holds the count itself, not the count shifted left
FlushRepeatedRun_NoShift(e) ==
    LET indicator_value == e.repeat_count_
        w1 == BitWriter_PutVlqInt(e.bit_writer_, indicator_value)
        w2 == BitWriter_PutAligned(w1, B2I(e.current_value_))
    IN  [e EXCEPT !.bit_writer_ = w2, !.num_buffered_values_ = 0, !.repeat_count_ = 0]

RleEncoder_FlushRepeatedRun(e) ==
    LET indicator_value == e.repeat_count_ * 2
        w1 == BitWriter_PutVlqInt(e.bit_writer_, indicator_value)
        w2 == BitWriter_PutAligned(w1, B2I(e.current_value_))
    IN  [DCheck(e, 348, e.repeat_count_ > 0)
            EXCEPT !.bit_writer_ = w2, !.num_buffered_values_ = 0, !.repeat_count_ = 0]

\* mutant: repeat_count_ is not reset after the buffered values became literals
FlushBufferedValues_KeepsRepeatCount(e, done) ==
    IF e.repeat_count_ >= 8
    THEN LET e1 == [e EXCEPT !.num_buffered_values_ = 0]
         IN  IF e1.literal_count_ # 0 THEN RleEncoder_FlushLiteralRun(e1, TRUE) ELSE e1
    ELSE LET e1 == [e EXCEPT !.literal_count_ = @ + e.num_buffered_values_]
             num_groups == BitmapSize(e1.literal_count_)
         IN  IF num_groups + 1 >= 64
             THEN RleEncoder_FlushLiteralRun(e1, TRUE)
             ELSE RleEncoder_FlushLiteralRun(e1, done)

\* mutant: a literal run is closed only when the run is done
FlushBufferedValues_NoGroupLimit(e, done) ==
    IF e.repeat_count_ >= 8
    THEN LET e1 == [e EXCEPT !.num_buffered_values_ = 0]
         IN  IF e1.literal_count_ # 0 THEN RleEncoder_FlushLiteralRun(e1, TRUE) ELSE e1
    ELSE LET e1 == [e EXCEPT !.literal_count_ = @ + e.num_buffered_values_]
             e2 == RleEncoder_FlushLiteralRun(e1, done)
         IN  [e2 EXCEPT !.repeat_count_ = 0]

\* mutant: eight equal values are not yet taken for a repeated run
FlushBufferedValues_RepeatOver8(e, done) ==
    IF e.repeat_count_ > 8
    THEN LET e1 == [e EXCEPT !.num_buffered_values_ = 0]
         IN  IF e1.literal_count_ # 0 THEN RleEncoder_FlushLiteralRun(e1, TRUE) ELSE e1
    ELSE LET e1 == [e EXCEPT !.literal_count_ = @ + e.num_buffered_values_]
             num_groups == BitmapSize(e1.literal_count_)
             e2 == IF num_groups + 1 >= 64
                   THEN RleEncoder_FlushLiteralRun(e1, TRUE)
                   ELSE RleEncoder_FlushLiteralRun(e1, done)
         IN  [e2 EXCEPT !.repeat_count_ = 0]

\* mutant: a literal run stays open when eight equal values start a repeated run
FlushBufferedValues_LeavesLiteralOpen(e, done) ==
    IF e.repeat_count_ >= 8
    THEN [e EXCEPT !.num_buffered_values_ = 0]
    ELSE LET e1 == [e EXCEPT !.literal_count_ = @ + e.num_buffered_values_]
             num_groups == BitmapSize(e1.literal_count_)
             e2 == IF num_groups + 1 >= 64
                   THEN RleEncoder_FlushLiteralRun(e1, TRUE)
                   ELSE RleEncoder_FlushLiteralRun(e1, done)
         IN  [e2 EXCEPT !.repeat_count_ = 0]

RleEncoder_FlushBufferedValues(e, done) ==
    IF e.repeat_count_ >= 8
    THEN LET e1 == [e EXCEPT !.num_buffered_values_ = 0]
             e2 == IF e1.literal_count_ # 0
                   THEN RleEncoder_FlushLiteralRun(
                            DCheck(DCheck(e1, 367, e1.literal_count_ % 8 = 0),
                                   368, e1.repeat_count_ = 8),
                            TRUE)
                   ELSE e1
         IN  DCheck(e2, 371, e2.literal_count_ = 0)
    ELSE LET e1 == [e EXCEPT !.literal_count_ = @ + e.num_buffered_values_]
             num_groups == BitmapSize(e1.literal_count_)
             e2 == IF num_groups + 1 >= 64
                   THEN RleEncoder_FlushLiteralRun(
                            DCheck(e1, 380, e1.literal_indicator_byte_ >= 0), TRUE)
                   ELSE RleEncoder_FlushLiteralRun(e1, done)
         IN  [e2 EXCEPT !.repeat_count_ = 0]

\* mutant: a repeated run that ends on a differing value is dropped, not flushed
PutIteration_DropsRun(e, value) ==
    LET e1 == IF e.current_value_ = value
              THEN [e EXCEPT !.repeat_count_ = @ + 1]
              ELSE [e EXCEPT !.repeat_count_ = 1, !.current_value_ = value]
    IN  IF e.current_value_ = value /\ e1.repeat_count_ > 8
        THEN e1
        ELSE LET e2 == [e1 EXCEPT !.buffered_values_[e1.num_buffered_values_] = value,
                                  !.num_buffered_values_ = @ + 1]
             IN  IF e2.num_buffered_values_ = 8
                 THEN RleEncoder_FlushBufferedValues(e2, FALSE)
                 ELSE e2

\* mutant: the buffered values are flushed when the seventh arrives
PutIteration_FlushAt7(e, value) ==
    LET e1 == IF e.current_value_ = value
              THEN [e EXCEPT !.repeat_count_ = @ + 1]
              ELSE LET f == IF e.repeat_count_ >= 8 THEN RleEncoder_FlushRepeatedRun(e) ELSE e
                   IN  [f EXCEPT !.repeat_count_ = 1, !.current_value_ = value]
    IN  IF e.current_value_ = value /\ e1.repeat_count_ > 8
        THEN e1
        ELSE LET e2 == [e1 EXCEPT !.buffered_values_[e1.num_buffered_values_] = value,
                                  !.num_buffered_values_ = @ + 1]
             IN  IF e2.num_buffered_values_ = 7
                 THEN RleEncoder_FlushBufferedValues(e2, FALSE)
                 ELSE e2

\* mutant: repeat_count_ counts every value put, equal to the last one or not
PutIteration_CountsAll(e, value) ==
    LET e1 == IF e.current_value_ = value
              THEN [e EXCEPT !.repeat_count_ = @ + 1]
              ELSE LET f == IF e.repeat_count_ >= 8
                            THEN RleEncoder_FlushRepeatedRun(e)
                            ELSE e
                   IN  [f EXCEPT !.repeat_count_ = @ + 1, !.current_value_ = value]
    IN  IF e.current_value_ = value /\ e1.repeat_count_ > 8
        THEN e1
        ELSE LET e2 == [e1 EXCEPT !.buffered_values_[e1.num_buffered_values_] = value,
                                  !.num_buffered_values_ = @ + 1]
             IN  IF e2.num_buffered_values_ = 8
                 THEN RleEncoder_FlushBufferedValues(e2, FALSE)
                 ELSE e2

\* mutant: a value that continues a long run is buffered like any other
PutIteration_NoFastPath(e, value) ==
    LET e1 == IF e.current_value_ = value
              THEN [e EXCEPT !.repeat_count_ = @ + 1]
              ELSE LET f == IF e.repeat_count_ >= 8
                            THEN RleEncoder_FlushRepeatedRun(e)
                            ELSE e
                   IN  [f EXCEPT !.repeat_count_ = 1, !.current_value_ = value]
        e2 == [e1 EXCEPT !.buffered_values_[e1.num_buffered_values_] = value,
                         !.num_buffered_values_ = @ + 1]
    IN  IF e2.num_buffered_values_ = 8
        THEN RleEncoder_FlushBufferedValues(e2, FALSE)
        ELSE e2

\* one iteration of the loop of Put
PutIteration(e, value) ==
    LET e1 == IF e.current_value_ = value
              THEN [e EXCEPT !.repeat_count_ = @ + 1]
              ELSE LET f == IF e.repeat_count_ >= 8
                            THEN RleEncoder_FlushRepeatedRun(
                                     DCheck(e, 303, e.literal_count_ = 0))
                            ELSE e
                   IN  [f EXCEPT !.repeat_count_ = 1, !.current_value_ = value]
    IN  IF e.current_value_ = value /\ e1.repeat_count_ > 8
        THEN e1
        ELSE LET e2 == [e1 EXCEPT !.buffered_values_[e1.num_buffered_values_] = value,
                                  !.num_buffered_values_ = @ + 1]
             IN  IF e2.num_buffered_values_ = 8
                 THEN RleEncoder_FlushBufferedValues(
                          DCheck(e2, 312, e2.literal_count_ % 8 = 0), FALSE)
                 ELSE e2

RECURSIVE Put_BulkRepeat(_, _, _)
\* mutant: a run_length that takes repeat_count_ past 8 is added in one step
Put_BulkRepeat(e, value, run_length) ==
    IF run_length = 0 THEN e
    ELSE IF e.current_value_ = value /\ e.repeat_count_ + run_length > 8
         THEN [e EXCEPT !.repeat_count_ = @ + run_length]
         ELSE Put_BulkRepeat(PutIteration(e, value), value, run_length - 1)

RECURSIVE RleEncoder_Put(_, _, _)
RleEncoder_Put(e, value, run_length) ==
    IF run_length = 0 THEN e
    ELSE RleEncoder_Put(PutIteration(e, value), value, run_length - 1)

\* mutant: Flush closes a run even when nothing is pending
Flush_NoPendingCheck(e) ==
    LET all_repeat == e.literal_count_ = 0 /\
                      (e.repeat_count_ = e.num_buffered_values_ \/ e.num_buffered_values_ = 0)
        e1 == IF e.repeat_count_ > 0 /\ all_repeat
              THEN RleEncoder_FlushRepeatedRun(e)
              ELSE LET f == RleEncoder_FlushLiteralRun(
                                [e EXCEPT !.literal_count_ = @ + e.num_buffered_values_],
                                TRUE)
                   IN  [f EXCEPT !.repeat_count_ = 0]
        fin == BitWriter_Finish(e1.bit_writer_)
    IN  [ret |-> fin.bytes, e |-> [e1 EXCEPT !.bit_writer_ = fin.w]]

\* mutant: the closing literal run's indicator is not updated
Flush_NoIndicatorUpdate(e) ==
    LET all_repeat == e.literal_count_ = 0 /\
                      (e.repeat_count_ = e.num_buffered_values_ \/ e.num_buffered_values_ = 0)
        e1 == IF e.literal_count_ > 0 \/ e.repeat_count_ > 0 \/ e.num_buffered_values_ > 0
              THEN IF e.repeat_count_ > 0 /\ all_repeat
                   THEN RleEncoder_FlushRepeatedRun(e)
                   ELSE LET f == RleEncoder_FlushLiteralRun(
                                     [e EXCEPT !.literal_count_ = @ + e.num_buffered_values_],
                                     FALSE)
                        IN  [f EXCEPT !.repeat_count_ = 0, !.literal_count_ = 0]
              ELSE e
        fin == BitWriter_Finish(e1.bit_writer_)
    IN  [ret |-> fin.bytes, e |-> [e1 EXCEPT !.bit_writer_ = fin.w]]

\* mutant: equal buffered values close as a repeated run beside an open
\* literal run
Flush_RepeatBesideLiteral(e) ==
    LET all_repeat == e.repeat_count_ = e.num_buffered_values_ \/ e.num_buffered_values_ = 0
        e1 == IF e.literal_count_ > 0 \/ e.repeat_count_ > 0 \/ e.num_buffered_values_ > 0
              THEN IF e.repeat_count_ > 0 /\ all_repeat
                   THEN LET f == RleEncoder_FlushRepeatedRun(e)
                        IN  [f EXCEPT !.literal_count_ = 0, !.literal_indicator_byte_ = -1]
                   ELSE LET f == RleEncoder_FlushLiteralRun(
                                     [e EXCEPT !.literal_count_ = @ + e.num_buffered_values_],
                                     TRUE)
                        IN  [f EXCEPT !.repeat_count_ = 0]
              ELSE e
        e2 == DCheck(DCheck(DCheck(e1, 401, e1.num_buffered_values_ = 0),
                            402, e1.literal_count_ = 0),
                     403, e1.repeat_count_ = 0)
        fin == BitWriter_Finish(e2.bit_writer_)
    IN  [ret |-> fin.bytes, e |-> [e2 EXCEPT !.bit_writer_ = fin.w]]

\* mutant: Flush leaves repeat_count_ as it is after closing a literal run
Flush_KeepsRepeatCount(e) ==
    LET all_repeat == e.literal_count_ = 0 /\
                      (e.repeat_count_ = e.num_buffered_values_ \/ e.num_buffered_values_ = 0)
        e1 == IF e.literal_count_ > 0 \/ e.repeat_count_ > 0 \/ e.num_buffered_values_ > 0
              THEN IF e.repeat_count_ > 0 /\ all_repeat
                   THEN RleEncoder_FlushRepeatedRun(e)
                   ELSE RleEncoder_FlushLiteralRun(
                            [e EXCEPT !.literal_count_ = @ + e.num_buffered_values_], TRUE)
              ELSE e
        e2 == DCheck(DCheck(DCheck(e1, 401, e1.num_buffered_values_ = 0),
                            402, e1.literal_count_ = 0),
                     403, e1.repeat_count_ = 0)
        fin == BitWriter_Finish(e2.bit_writer_)
    IN  [ret |-> fin.bytes, e |-> [e2 EXCEPT !.bit_writer_ = fin.w]]

\* the encoder after Flush and the value Flush returns
RleEncoder_Flush(e) ==
    LET all_repeat == e.literal_count_ = 0 /\
                      (e.repeat_count_ = e.num_buffered_values_ \/ e.num_buffered_values_ = 0)
        e1 == IF e.literal_count_ > 0 \/ e.repeat_count_ > 0 \/ e.num_buffered_values_ > 0
              THEN IF e.repeat_count_ > 0 /\ all_repeat
                   THEN RleEncoder_FlushRepeatedRun(e)
                   ELSE LET f == RleEncoder_FlushLiteralRun(
                                     [e EXCEPT !.literal_count_ = @ + e.num_buffered_values_],
                                     TRUE)
                        IN  [f EXCEPT !.repeat_count_ = 0]
              ELSE e
        e2 == DCheck(DCheck(DCheck(e1, 401, e1.num_buffered_values_ = 0),
                            402, e1.literal_count_ = 0),
                     403, e1.repeat_count_ = 0)
        fin == BitWriter_Finish(e2.bit_writer_)
    IN  [ret |-> fin.bytes, e |-> [e2 EXCEPT !.bit_writer_ = fin.w]]

-----------------------------------------------------------------------------
(* BitReader: pos is the number of bits read from buffer so far. Every     *)
(* read reports success and leaves the cursor alone when it fails.         *)

BitReader_New(buffer) == [buffer |-> buffer, pos |-> 0]

BitAt(buffer, pos) == ((buffer[(pos \div 8) + 1] \div Pow2(pos % 8)) % 2) = 1

BitReader_GetBool(r) ==
    IF r.pos < 8 * Len(r.buffer)
    THEN [ok |-> TRUE, val |-> BitAt(r.buffer, r.pos), r |-> [r EXCEPT !.pos = @ + 1]]
    ELSE [ok |-> FALSE, val |-> FALSE, r |-> r]

\* advance to the next byte boundary, then read one byte
BitReader_GetAligned(r) ==
    LET byte == (r.pos + 7) \div 8
    IN  IF byte < Len(r.buffer)
        THEN [ok |-> TRUE, val |-> r.buffer[byte + 1], r |-> [r EXCEPT !.pos = 8 * (byte + 1)]]
        ELSE [ok |-> FALSE, val |-> 0, r |-> r]

RECURSIVE VlqLoop(_, _, _, _)
VlqLoop(r0, r, v, mult) ==
    LET g == BitReader_GetAligned(r)
    IN  IF ~g.ok THEN [ok |-> FALSE, val |-> 0, r |-> r0]
        ELSE IF g.val >= 128
             THEN VlqLoop(r0, g.r, v + (g.val % 128) * mult, mult * 128)
             ELSE [ok |-> TRUE, val |-> v + g.val * mult, r |-> g.r]

BitReader_GetVlqInt(r) == VlqLoop(r, r, 0, 1)

BitReader_RewindBool(r) == [r EXCEPT !.pos = @ - 1]

-----------------------------------------------------------------------------
(* RleDecoder. repeat_count_ and literal_count_ are uint32_t: a decrement   *)
(* of 0 gives 2^32 - 1, which is held as -1 (the same 32 bits read as a    *)
(* signed number), and "> 0" on them is U32Positive. Every operation also  *)
(* reports in `failed` whether one of its DCHECKs met a false condition:   *)
(* a build with DCHECKs aborts there, a build without them goes on as      *)
(* computed here.                                                          *)

RleDecoder_New(buffer) ==
    [bit_reader_ |-> BitReader_New(buffer),
     current_value_ |-> FALSE,
     repeat_count_ |-> 0,
     literal_count_ |-> 0]

\* count > 0 for a uint32_t count
U32Positive(count) == count # 0

\* (count < to_skip) ? count : to_skip for a uint32_t count and a size_t to_skip
U32Min(count, to_skip) == IF count >= 0 /\ count < to_skip THEN count ELSE to_skip

\* mutant: a repeated header reads no value after the indicator
ReadHeader_NoValueRead(d) ==
    IF d.literal_count_ = 0 /\ d.repeat_count_ = 0
    THEN LET g == BitReader_GetVlqInt(d.bit_reader_)
             is_literal == (g.val % 2) = 1
         IN  IF ~g.ok THEN [ret |-> FALSE, d |-> d, failed |-> FALSE]
             ELSE IF is_literal
                  THEN [ret |-> TRUE,
                        d |-> [d EXCEPT !.bit_reader_ = g.r,
                                        !.literal_count_ = (g.val \div 2) * 8],
                        failed |-> ~U32Positive((g.val \div 2) * 8)]
                  ELSE [ret |-> TRUE,
                        d |-> [d EXCEPT !.bit_reader_ = g.r,
                                        !.repeat_count_ = g.val \div 2],
                        failed |-> ~U32Positive(g.val \div 2)]
    ELSE [ret |-> TRUE, d |-> d, failed |-> FALSE]

\* mutant: a literal header sets the number of groups, not of values
ReadHeader_CountsGroups(d) ==
    IF d.literal_count_ = 0 /\ d.repeat_count_ = 0
    THEN LET g == BitReader_GetVlqInt(d.bit_reader_)
             is_literal == (g.val % 2) = 1
         IN  IF ~g.ok THEN [ret |-> FALSE, d |-> d, failed |-> FALSE]
             ELSE IF is_literal
                  THEN [ret |-> TRUE,
                        d |-> [d EXCEPT !.bit_reader_ = g.r,
                                        !.literal_count_ = g.val \div 2],
                        failed |-> ~U32Positive(g.val \div 2)]
                  ELSE LET b == BitReader_GetBool(g.r)
                       IN  [ret |-> TRUE,
                            d |-> [d EXCEPT !.bit_reader_ = b.r,
                                            !.repeat_count_ = g.val \div 2,
                                            !.current_value_ = IF b.ok THEN b.val ELSE @],
                            failed |-> ~U32Positive(g.val \div 2) \/ ~b.ok]
    ELSE [ret |-> TRUE, d |-> d, failed |-> FALSE]

RleDecoder_ReadHeader(d) ==
    IF d.literal_count_ = 0 /\ d.repeat_count_ = 0
    THEN LET g == BitReader_GetVlqInt(d.bit_reader_)
             is_literal == (g.val % 2) = 1
         IN  IF ~g.ok THEN [ret |-> FALSE, d |-> d, failed |-> FALSE]
             ELSE IF is_literal
                  THEN [ret |-> TRUE,
                        d |-> [d EXCEPT !.bit_reader_ = g.r,
                                        !.literal_count_ = (g.val \div 2) * 8],
                        failed |-> ~U32Positive((g.val \div 2) * 8)]
                  ELSE LET b == BitReader_GetBool(g.r)
                       IN  [ret |-> TRUE,
                            d |-> [d EXCEPT !.bit_reader_ = b.r,
                                            !.repeat_count_ = g.val \div 2,
                                            !.current_value_ = IF b.ok THEN b.val ELSE @],
                            failed |-> ~U32Positive(g.val \div 2) \/ ~b.ok]
    ELSE [ret |-> TRUE, d |-> d, failed |-> FALSE]

\* mutant: the end of the input is taken for a run still to be read
Get_IgnoresHeaderResult(d, val) ==
    LET h == RleDecoder_ReadHeader(d)
    IN  IF U32Positive(h.d.repeat_count_)
        THEN [ret |-> TRUE, val |-> h.d.current_value_,
              d |-> [h.d EXCEPT !.repeat_count_ = @ - 1], failed |-> h.failed]
        ELSE LET b == BitReader_GetBool(h.d.bit_reader_)
             IN  [ret |-> TRUE, val |-> IF b.ok THEN b.val ELSE val,
                  d |-> [h.d EXCEPT !.bit_reader_ = b.r, !.literal_count_ = @ - 1],
                  failed |-> h.failed \/ ~U32Positive(h.d.literal_count_) \/ ~b.ok]

\* val is the caller's variable behind the out-parameter
RleDecoder_Get(d, val) ==
    LET h == RleDecoder_ReadHeader(d)
    IN  IF ~h.ret THEN [ret |-> FALSE, val |-> val, d |-> h.d, failed |-> FALSE]
        ELSE IF U32Positive(h.d.repeat_count_)
             THEN [ret |-> TRUE, val |-> h.d.current_value_,
                   d |-> [h.d EXCEPT !.repeat_count_ = @ - 1], failed |-> h.failed]
             ELSE LET b == BitReader_GetBool(h.d.bit_reader_)
                  IN  [ret |-> TRUE, val |-> IF b.ok THEN b.val ELSE val,
                       d |-> [h.d EXCEPT !.bit_reader_ = b.r, !.literal_count_ = @ - 1],
                       failed |-> h.failed \/ ~U32Positive(h.d.literal_count_) \/ ~b.ok]

\* *run_length is a size_t: acc.run_length + acc.over * 2^32, and whether a
\* DCHECK has failed so far in the call
NoRun == [run_length |-> 0, over |-> 0, failed |-> FALSE]

\* *run_length > 0
SizePositive(acc) == acc.over > 0 \/ acc.run_length > 0

\* the literal_count_ iterations left when GetBool fails and current_value_,
\* which a failed read leaves alone, equals the run's value: each of them
\* counts one more value, none reads anything
LiteralLoop_Exhausted(d, acc) ==
    [stop |-> FALSE,
     acc |-> [run_length |-> acc.run_length + d.literal_count_,
              over |-> acc.over + (IF d.literal_count_ < 0 THEN 1 ELSE 0),
              failed |-> TRUE],
     d |-> [d EXCEPT !.literal_count_ = 0]]

RECURSIVE LiteralLoop_NoRewind(_, _, _)
\* mutant: the bit that ends the run is not given back to the reader
LiteralLoop_NoRewind(d, val, acc) ==
    IF U32Positive(d.literal_count_)
    THEN LET b  == BitReader_GetBool(d.bit_reader_)
             d1 == [d EXCEPT !.bit_reader_ = b.r,
                             !.current_value_ = IF b.ok THEN b.val ELSE @]
             a1 == [acc EXCEPT !.failed = @ \/ ~b.ok]
         IN  IF d1.current_value_ # val
             THEN [stop |-> TRUE, acc |-> a1, d |-> d1]
             ELSE IF ~b.ok THEN LiteralLoop_Exhausted(d1, a1)
             ELSE LiteralLoop_NoRewind([d1 EXCEPT !.literal_count_ = @ - 1], val,
                                       [a1 EXCEPT !.run_length = @ + 1])
    ELSE [stop |-> FALSE, acc |-> acc, d |-> d]

RECURSIVE LiteralLoop(_, _, _)
\* while (literal_count_ > 0) of GetNextRun; stop: the function returned true
LiteralLoop(d, val, acc) ==
    IF U32Positive(d.literal_count_)
    THEN LET b  == BitReader_GetBool(d.bit_reader_)
             d1 == [d EXCEPT !.bit_reader_ = b.r,
                             !.current_value_ = IF b.ok THEN b.val ELSE @]
             a1 == [acc EXCEPT !.failed = @ \/ ~b.ok]
         IN  IF d1.current_value_ # val
             THEN [stop |-> TRUE, acc |-> a1,
                   d |-> [d1 EXCEPT !.bit_reader_ = BitReader_RewindBool(@)]]
             ELSE IF ~b.ok THEN LiteralLoop_Exhausted(d1, a1)
             ELSE LiteralLoop([d1 EXCEPT !.literal_count_ = @ - 1], val,
                              [a1 EXCEPT !.run_length = @ + 1])
    ELSE [stop |-> FALSE, acc |-> acc, d |-> d]

\* what GetNextRun hands back
RunResult(ret, val, acc, d, rewound) ==
    [ret |-> ret, val |-> val, run_length |-> acc.run_length, over |-> acc.over,
     d |-> d, rewound |-> rewound, failed |-> acc.failed]

RECURSIVE RunLoop(_, _, _)
\* while (ReadHeader()) of GetNextRun
RunLoop(d, val, acc) ==
    LET h  == RleDecoder_ReadHeader(d)
        a0 == [acc EXCEPT !.failed = @ \/ h.failed]
    IN  IF ~h.ret
        THEN RunResult(SizePositive(acc), val, acc, h.d, FALSE)
        ELSE IF U32Positive(h.d.repeat_count_)
        THEN IF SizePositive(acc) /\ val # h.d.current_value_
             THEN RunResult(TRUE, val, a0, h.d, FALSE)
             ELSE RunLoop([h.d EXCEPT !.repeat_count_ = 0], h.d.current_value_,
                          [a0 EXCEPT !.run_length = @ + h.d.repeat_count_])
        ELSE LET fresh == ~SizePositive(acc)
                 b  == BitReader_GetBool(h.d.bit_reader_)
                 d1 == IF fresh
                       THEN [h.d EXCEPT !.bit_reader_ = b.r, !.literal_count_ = @ - 1]
                       ELSE h.d
                 v1 == IF fresh /\ b.ok THEN b.val ELSE val
                 a1 == [a0 EXCEPT !.run_length = IF fresh THEN 1 ELSE @,
                                  !.failed = @ \/ ~U32Positive(h.d.literal_count_)
                                               \/ (fresh /\ ~b.ok)]
                 l  == LiteralLoop(d1, v1, a1)
             IN  IF l.stop
                 THEN RunResult(TRUE, v1, l.acc, l.d, TRUE)
                 ELSE RunLoop(l.d, v1, l.acc)

\* mutant: the run is returned when its literal run ends, whatever follows
GetNextRun_StopsAtLiteralEnd(d, val) ==
    LET h == RleDecoder_ReadHeader(d)
    IN  IF h.ret /\ h.d.repeat_count_ = 0 /\ h.d.literal_count_ > 0
        THEN LET b == BitReader_GetBool(h.d.bit_reader_)
                 l == LiteralLoop([h.d EXCEPT !.bit_reader_ = b.r, !.literal_count_ = @ - 1],
                                  b.val, [NoRun EXCEPT !.run_length = 1])
             IN  RunResult(TRUE, b.val, l.acc, l.d, l.stop)
        ELSE RunLoop(d, val, NoRun)

RleDecoder_GetNextRun(d, val) == RunLoop(d, val, NoRun)

\* mutant: the skipped literal bits are not read
SkipBits_NoRead(r, nskip, set_count) ==
    [r |-> r, set_count |-> set_count, failed |-> FALSE]

RECURSIVE SkipBits(_, _, _)
\* while (nskip--) of Skip: read nskip literal bits and count the set ones
SkipBits(r, nskip, set_count) ==
    IF nskip = 0 THEN [r |-> r, set_count |-> set_count, failed |-> FALSE]
    ELSE LET b == BitReader_GetBool(r)
             s == SkipBits(b.r, nskip - 1, set_count + B2I(b.ok /\ b.val))
         IN  [s EXCEPT !.failed = @ \/ ~b.ok]

RECURSIVE SkipLoop(_, _, _, _)
\* while (to_skip > 0) of Skip. stuck: ReadHeader found the input at its end, so
\* the iteration changed nothing (both counts are 0, nskip is 0) and every
\* iteration after it does the same: the loop does not end
SkipLoop(d, to_skip, set_count, failed) ==
    IF to_skip = 0 THEN [ret |-> set_count, d |-> d, stuck |-> FALSE, failed |-> failed]
    ELSE LET h == RleDecoder_ReadHeader(d)
         IN  IF ~h.ret THEN [ret |-> set_count, d |-> h.d, stuck |-> TRUE, failed |-> TRUE]
             ELSE IF U32Positive(h.d.repeat_count_)
             THEN LET nskip == U32Min(h.d.repeat_count_, to_skip)
                  IN  SkipLoop([h.d EXCEPT !.repeat_count_ = @ - nskip],
                               to_skip - nskip,
                               B2I(h.d.current_value_) * nskip,
                               failed \/ h.failed)
             ELSE LET nskip == U32Min(h.d.literal_count_, to_skip)
                      s == SkipBits(h.d.bit_reader_, nskip, set_count)
                  IN  SkipLoop([h.d EXCEPT !.literal_count_ = @ - nskip, !.bit_reader_ = s.r],
                               to_skip - nskip,
                               s.set_count,
                               failed \/ h.failed \/ ~U32Positive(h.d.literal_count_)
                                      \/ s.failed)

RleDecoder_Skip(d, to_skip) == SkipLoop(d, to_skip, 0, FALSE)

-----------------------------------------------------------------------------
(* The inputs and what the caller may expect of the stream.                *)

\* every boolean sequence of at most MaxLen values
ShortInputs == UNION {[1..n -> BOOLEAN] : n \in 0..MaxLen}

\* a values of v, then b of ~v, then c of v, then d of ~v
RunSeq(v, a, b, c, d) ==
    [i \in 1..(a + b + c + d) |->
        IF i <= a THEN v ELSE IF i <= a + b THEN ~v ELSE IF i <= a + b + c THEN v ELSE ~v]

\* inputs made of up to four runs, long enough to open repeated runs
RunInputs ==
    {RunSeq(v, a, b, c, d) : v \in BOOLEAN, a \in {4, 8, 9}, b \in {0, 1, 4, 12},
                             c \in {0, 3, 8}, d \in {0, 8}}

\* the period p repeated up to n values
Periodic(p, n) == [i \in 1..n |-> p[((i - 1) % Len(p)) + 1]]

Patterns ==
    {<<TRUE>>, <<FALSE>>, <<TRUE, FALSE>>,
     <<FALSE, TRUE, FALSE, TRUE, FALSE, TRUE, TRUE, FALSE>>}

LongLens == {8 * k : k \in {1, 2, 25, 62, 63, 64, 126, 127, MaxGroups}} \cup {(8 * 63) + 3}

\* long periodic inputs: they fill a literal run up to its group limit
LongInputs == {Periodic(p, n) : p \in Patterns, n \in LongLens}

\* byte values of the sequences handed to a decoder as they are: indicators
\* with count 0 (0, 1), with small counts (2, 3, 16), a VLQ byte with the
\* continuation bit (129), and payload bytes
RawBytes == {0, 1, 2, 3, 16, 129, 255}

\* every sequence of at most MaxRawLen such bytes: well-formed streams and others
RawBuffers == UNION {[1..n -> RawBytes] : n \in 0..MaxRawLen}

\* inputs for an encoder that is flushed at any point: a run long enough to be
\* a repeated run, alone, after values that make a literal group with it, and
\* after a literal group that it closes
EncInputs ==
    {RunSeq(v, ab[1], ab[2], 0, 0) : v \in BOOLEAN, ab \in {<<9, 0>>, <<3, 9>>, <<4, 12>>}}

\* scenario S1 / the header comment's first example: 100 ones, then 100 zeros
S1Input == RunSeq(TRUE, 100, 100, 0, 0)

\* scenario S5: four zeros, then twelve ones
S5Input == RunSeq(FALSE, 4, 12, 0, 0)

\* 64 groups of alternating values, which fill a literal run to its group limit
\* and open the next one, then nine ones and a zero: a repeated run that
\* closes the open literal run and is ended by a differing value
GroupLimitInput == [i \in 1..((8 * 64) + 10) |-> IF i <= 8 * 64 THEN i % 2 = 1 ELSE i < (8 * 64) + 10]

\* the i-th value of the stream: the input, then the zero padding of the last byte
Expected(i) == IF i <= Len(plan) THEN plan[i] ELSE FALSE

\* number of true values among the values i+1 .. i+k of the stream
TrueCount(i, k) == Cardinality({j \in (i + 1)..(i + k) : Expected(j)})

RECURSIVE ValuesFrom(_, _)
\* number of values announced by the run headers from byte `byte` on
ValuesFrom(buffer, byte) ==
    LET g == BitReader_GetVlqInt([buffer |-> buffer, pos |-> 8 * byte])
        next == g.r.pos \div 8
    IN  IF ~g.ok THEN 0
        ELSE IF g.val % 2 = 1
             THEN ((g.val \div 2) * 8) + ValuesFrom(buffer, next + (g.val \div 2))
             ELSE (g.val \div 2) + ValuesFrom(buffer, next + 1)

\* number of values the decoder d has not consumed yet
Remaining(d) ==
    d.repeat_count_ + d.literal_count_ +
    ValuesFrom(d.bit_reader_.buffer, (d.bit_reader_.pos + d.literal_count_ + 7) \div 8)

-----------------------------------------------------------------------------
(* The state machine.                                                      *)

NoOp == [name |-> "none", arg |-> 0, ret |-> FALSE, val |-> FALSE, run_length |-> 0,
         over |-> 0, set_count |-> 0, before |-> 0, rewound |-> FALSE, failed |-> FALSE]

\* what the next call's record keeps of the call o
Summary(o) ==
    IF o.name = "GetNextRun"
    THEN [name |-> o.name, ret |-> o.ret, val |-> o.val, rewound |-> o.rewound]
    ELSE [name |-> o.name, ret |-> FALSE, val |-> FALSE, rewound |-> FALSE]

NoHist == Summary(NoOp)

\* no thread of the lock model has made a call
NoLockUse ==
    /\ state_ = [write_flag |-> FALSE, num_readers |-> 0]
    /\ threads = [t \in {} |-> "idle"]
    /\ locks_ = <<>>
    /\ callers = <<>>

InitWith(inputs) ==
    /\ plan \in inputs
    /\ nput = 0
    /\ phase = "encode"
    /\ enc = RleEncoder_New
    /\ flushed = 0
    /\ dec = RleDecoder_New(<<>>)
    /\ consumed = 0
    /\ op = NoOp
    /\ hist = NoHist
    /\ ndebug = TRUE
    /\ NoLockUse

Init == InitWith(ShortInputs \cup RunInputs)

InitLong == InitWith(ShortInputs \cup RunInputs \cup LongInputs \cup {S1Input, GroupLimitInput})

Put(value, run_length) ==
    /\ phase = "encode"
    /\ nput + run_length <= Len(plan)
    /\ \A i \in (nput + 1)..(nput + run_length) : plan[i] = value
    /\ enc' = RleEncoder_Put(enc, value, run_length)
    /\ nput' = nput + run_length
    /\ op' = [NoOp EXCEPT !.name = "Put", !.arg = run_length, !.val = value]
    /\ UNCHANGED <<plan, phase, flushed, dec, consumed, hist, ndebug, state_, threads, locks_, callers>>

Flush ==
    /\ phase = "encode"
    /\ nput = Len(plan)
    /\ LET f == RleEncoder_Flush(enc)
       IN  /\ enc' = f.e
           /\ flushed' = f.ret
           /\ dec' = RleDecoder_New(SubSeq(f.e.bit_writer_.buffer, 1, f.ret))
    /\ phase' = "decode"
    /\ op' = [NoOp EXCEPT !.name = "Flush"]
    /\ UNCHANGED <<plan, nput, consumed, hist, ndebug, state_, threads, locks_, callers>>

\* mutant: Clear leaves current_value_ as it is
Clear_KeepsCurrentValue ==
    /\ phase \in {"encode", "decode"}
    /\ nput > 0
    /\ enc' = [RleEncoder_Clear(enc) EXCEPT !.current_value_ = enc.current_value_]
    /\ nput' = 0
    /\ phase' = "encode"
    /\ flushed' = 0
    /\ dec' = RleDecoder_New(<<>>)
    /\ consumed' = 0
    /\ op' = [NoOp EXCEPT !.name = "Clear"]
    /\ hist' = NoHist
    /\ UNCHANGED <<plan, ndebug, state_, threads, locks_, callers>>

Clear ==
    /\ phase \in {"encode", "decode"}
    /\ nput > 0
    /\ enc' = RleEncoder_Clear(enc)
    /\ nput' = 0
    /\ phase' = "encode"
    /\ flushed' = 0
    /\ dec' = RleDecoder_New(<<>>)
    /\ consumed' = 0
    /\ op' = [NoOp EXCEPT !.name = "Clear"]
    /\ hist' = NoHist
    /\ UNCHANGED <<plan, ndebug, state_, threads, locks_, callers>>

\* Flush called at any point of the input; the caller then goes on putting
\* values, or hands the bytes written so far to a decoder
FlushAnyTime ==
    /\ phase = "encode"
    /\ \E f \in {RleEncoder_Flush(enc)}, continue \in BOOLEAN :
           /\ f.ret <= MaxFlushedBytes
           /\ enc' = f.e
           /\ flushed' = f.ret
           /\ phase' = IF continue THEN "encode" ELSE "decode"
           /\ dec' = IF continue THEN dec
                     ELSE RleDecoder_New(SubSeq(f.e.bit_writer_.buffer, 1, f.ret))
    /\ op' = [NoOp EXCEPT !.name = "Flush"]
    /\ UNCHANGED <<plan, nput, consumed, hist, ndebug, state_, threads, locks_, callers>>

\* how a decoder call ends: a failed DCHECK aborts the process unless the
\* DCHECKs are compiled out; a call caught in an endless loop does not return
Outcome(failed, stuck) ==
    IF failed /\ ~ndebug THEN "abort" ELSE IF stuck THEN "stuck" ELSE "decode"

\* the result of a call is bound by \E over a one-element set: it is computed once
Get ==
    /\ phase = "decode"
    /\ \E g \in {RleDecoder_Get(dec, op.val)} :
       \E returns \in {Outcome(g.failed, FALSE) = "decode"} :
           /\ phase' = IF returns THEN "decode" ELSE "abort"
           /\ dec' = IF returns THEN g.d ELSE dec
           /\ op' = [NoOp EXCEPT !.name = "Get", !.before = consumed, !.failed = g.failed,
                                 !.ret = returns /\ g.ret,
                                 !.val = IF returns THEN g.val ELSE op.val]
           /\ consumed' = consumed + B2I(returns /\ g.ret)
    /\ hist' = Summary(op)
    /\ UNCHANGED <<plan, nput, enc, flushed, ndebug, state_, threads, locks_, callers>>

GetNextRun ==
    /\ phase = "decode"
    /\ \E g \in {RleDecoder_GetNextRun(dec, op.val)} :
       \E returns \in {Outcome(g.failed, FALSE) = "decode"} :
           /\ phase' = IF returns THEN "decode" ELSE "abort"
           /\ dec' = IF returns THEN g.d ELSE dec
           /\ op' = [NoOp EXCEPT !.name = "GetNextRun", !.before = consumed,
                                 !.failed = g.failed,
                                 !.ret = returns /\ g.ret,
                                 !.val = IF returns THEN g.val ELSE op.val,
                                 !.run_length = IF returns THEN g.run_length ELSE 0,
                                 !.over = IF returns THEN g.over ELSE 0,
                                 !.rewound = returns /\ g.rewound]
           /\ consumed' = consumed + (IF returns THEN g.run_length ELSE 0)
    /\ hist' = Summary(op)
    /\ UNCHANGED <<plan, nput, enc, flushed, ndebug, state_, threads, locks_, callers>>

Skip(to_skip) ==
    /\ phase = "decode"
    /\ \E s \in {RleDecoder_Skip(dec, to_skip)} :
       \E outcome \in {Outcome(s.failed, s.stuck)} :
           /\ phase' = outcome
           /\ dec' = IF outcome = "decode" THEN s.d ELSE dec
           /\ op' = [NoOp EXCEPT !.name = "Skip", !.arg = to_skip, !.before = consumed,
                                 !.failed = s.failed,
                                 !.ret = (outcome = "decode"),
                                 !.val = op.val,
                                 !.set_count = IF outcome = "decode" THEN s.ret ELSE 0]
           /\ consumed' = consumed + (IF outcome = "decode" THEN to_skip ELSE 0)
    /\ hist' = Summary(op)
    /\ UNCHANGED <<plan, nput, enc, flushed, ndebug, state_, threads, locks_, callers>>

Next ==
    \/ \E value \in BOOLEAN, run_length \in 1..MaxRun : Put(value, run_length)
    \/ Flush
    \/ Clear
    \/ Get
    \/ GetNextRun
    \/ \E to_skip \in 1..Min(MaxSkip, Remaining(dec)) : Skip(to_skip)

\* long inputs are encoded and read back run by run
NextLong ==
    \/ \E value \in BOOLEAN, run_length \in 1..MaxRun : Put(value, run_length)
    \/ Flush
    \/ Clear
    \/ GetNextRun

\* a decoder constructed over given bytes, in a build with or without DCHECKs
InitRaw ==
    /\ plan = <<>>
    /\ nput = 0
    /\ phase = "decode"
    /\ enc = RleEncoder_New
    /\ flushed = 0
    /\ \E buffer \in RawBuffers : dec = RleDecoder_New(buffer)
    /\ consumed = 0
    /\ op = NoOp
    /\ hist = NoHist
    /\ ndebug \in BOOLEAN
    /\ NoLockUse

\* any call with any argument, as long as no call has gone past a failed DCHECK
NextRaw ==
    \/ ~op.failed /\ Get
    \/ ~op.failed /\ GetNextRun
    \/ ~op.failed /\ \E to_skip \in 1..MaxSkip : Skip(to_skip)

\* an encoder that may be flushed at any point, given a short input or one of
\* EncInputs
InitEnc == InitWith(UNION {[1..n -> BOOLEAN] : n \in 0..MaxEncLen} \cup EncInputs)

\* the encoder flushed and cleared at any point, and what was written read back
NextEnc ==
    \/ \E value \in BOOLEAN, run_length \in 1..MaxRun : Put(value, run_length)
    \/ FlushAnyTime
    \/ Clear
    \/ Get
    \/ GetNextRun

Spec == Init /\ [][Next]_vars

SpecEnc == InitEnc /\ [][NextEnc]_vars

SpecRaw == InitRaw /\ [][NextRaw]_vars

SpecLong == InitLong /\ [][NextLong]_vars

-----------------------------------------------------------------------------
(* rw_spinlock (locks.h). state_ is held as its two bit fields: bit 31, the  *)
(* write flag, and bits 0..30, the number of readers. Each thread is at a    *)
(* place (pc) of one of the member functions and, inside the loops, holds    *)
(* the local cur_state. Every load, compare-and-swap and store of state_ is  *)
(* one step.                                                                 *)

\* number of threads using the lock
NumThreads == 3

Threads == 1..NumThreads

kNumReadersMask == 2147483647

kWriteFlag == [write_flag |-> TRUE, num_readers |-> 0]

\* state_(0)
Unlocked == [write_flag |-> FALSE, num_readers |-> 0]

\* cur_state & kNumReadersMask
Masked(s) == [s EXCEPT !.write_flag = FALSE]

\* kWriteFlag | expected
WithWriteFlag(s) == [s EXCEPT !.write_flag = TRUE]

\* expected + 1, in 32 bits
PlusOne(s) ==
    IF s.num_readers < kNumReadersMask
    THEN [s EXCEPT !.num_readers = @ + 1]
    ELSE [write_flag |-> ~s.write_flag, num_readers |-> 0]

\* expected - 1, in 32 bits
MinusOne(s) ==
    IF s.num_readers > 0
    THEN [s EXCEPT !.num_readers = @ - 1]
    ELSE [write_flag |-> ~s.write_flag, num_readers |-> kNumReadersMask]

\* a thread outside the loops; the local cur_state does not exist there
At(pc) == [pc |-> pc, cur_state |-> Unlocked]

\* where a failed DCHECK leaves the program
LockOutcome(dcheck) == IF dcheck \/ ndebug THEN "lock" ELSE "abort"

\* cur_state = NoBarrier_Load(&state_) at the head of a member function
Load(t, from, to) ==
    /\ phase = "lock"
    /\ threads[t].pc = from
    /\ threads' = [threads EXCEPT ![t] = [pc |-> to, cur_state |-> state_]]
    /\ UNCHANGED <<plan, nput, phase, enc, flushed, dec, consumed, op, hist, ndebug, state_, locks_, callers>>

\* cur_state = Acquire_CompareAndSwap(&state_, expected, try_new_state) and
\* the test that leaves the loop
CompareAndSwap(t, expected, try_new_state, done) ==
    /\ state_' = IF state_ = expected THEN try_new_state ELSE state_
    /\ threads' = [threads EXCEPT ![t] = IF state_ = expected
                                         THEN At(done)
                                         ELSE [@ EXCEPT !.cur_state = state_]]

\* mutant: lock_shared expects cur_state as it is, write flag included
lock_shared_Unmasked(t) ==
    \/ Load(t, "idle", "lock_shared")
    \/ /\ phase = "lock"
       /\ threads[t].pc = "lock_shared"
       /\ CompareAndSwap(t, threads[t].cur_state, PlusOne(threads[t].cur_state), "shared")
       /\ UNCHANGED <<plan, nput, phase, enc, flushed, dec, consumed, op, hist, ndebug, locks_, callers>>

lock_shared(t) ==
    \/ Load(t, "idle", "lock_shared")
    \/ /\ phase = "lock"
       /\ threads[t].pc = "lock_shared"
       /\ LET expected == Masked(threads[t].cur_state)
          IN  CompareAndSwap(t, expected, PlusOne(expected), "shared")
       /\ UNCHANGED <<plan, nput, phase, enc, flushed, dec, consumed, op, hist, ndebug, locks_, callers>>

unlock_shared(t) ==
    \/ Load(t, "shared", "unlock_shared")
    \/ /\ phase = "lock"
       /\ threads[t].pc = "unlock_shared"
       /\ \E next \in {LockOutcome(threads[t].cur_state.num_readers > 0)} :
              /\ phase' = next
              /\ IF next = "lock"
                 THEN CompareAndSwap(t, threads[t].cur_state,
                                     MinusOne(threads[t].cur_state), "idle")
                 ELSE UNCHANGED <<state_, threads>>
       /\ UNCHANGED <<plan, nput, enc, flushed, dec, consumed, op, hist, ndebug, locks_, callers>>

try_lock(t) ==
    \/ Load(t, "idle", "try_lock")
    \/ /\ phase = "lock"
       /\ threads[t].pc = "try_lock"
       /\ IF threads[t].cur_state.write_flag
          THEN /\ threads' = [threads EXCEPT ![t] = At("idle")]
               /\ UNCHANGED state_
          ELSE LET expected == Masked(threads[t].cur_state)
               IN  CompareAndSwap(t, expected, WithWriteFlag(expected), "try_lock_wait")
       /\ UNCHANGED <<plan, nput, phase, enc, flushed, dec, consumed, op, hist, ndebug, locks_, callers>>

lock(t) ==
    \/ Load(t, "idle", "lock")
    \/ /\ phase = "lock"
       /\ threads[t].pc = "lock"
       /\ LET expected == Masked(threads[t].cur_state)
          IN  CompareAndSwap(t, expected, WithWriteFlag(expected), "lock_wait")
       /\ UNCHANGED <<plan, nput, phase, enc, flushed, dec, consumed, op, hist, ndebug, locks_, callers>>

\* mutant: the writer does not wait for the readers to leave
WaitPendingReaders_NoWait(t) ==
    /\ phase = "lock"
    /\ threads[t].pc \in {"lock_wait", "try_lock_wait"}
    /\ threads' = [threads EXCEPT ![t] = At(IF threads[t].pc = "lock_wait"
                                            THEN "locked" ELSE "try_locked")]
    /\ UNCHANGED <<plan, nput, phase, enc, flushed, dec, consumed, op, hist, ndebug, state_, locks_, callers>>

\* the iteration that leaves the loop, and the return of lock() or try_lock();
\* an iteration that finds readers changes nothing
WaitPendingReaders(t) ==
    /\ phase = "lock"
    /\ threads[t].pc \in {"lock_wait", "try_lock_wait"}
    /\ ~(state_.num_readers > 0)
    /\ threads' = [threads EXCEPT ![t] = At(IF threads[t].pc = "lock_wait"
                                            THEN "locked" ELSE "try_locked")]
    /\ UNCHANGED <<plan, nput, phase, enc, flushed, dec, consumed, op, hist, ndebug, state_, locks_, callers>>

unlock(t) ==
    /\ phase = "lock"
    /\ threads[t].pc \in {"locked", "try_locked"}
    /\ \E next \in {LockOutcome(state_ = kWriteFlag)} :
           /\ phase' = next
           /\ state_' = IF next = "lock" THEN Unlocked ELSE state_
           /\ threads' = IF next = "lock" THEN [threads EXCEPT ![t] = At("idle")] ELSE threads
    /\ UNCHANGED <<plan, nput, enc, flushed, dec, consumed, op, hist, ndebug, locks_, callers>>

\* a lock newly constructed, in a build with DCHECKs: as long as none fails
\* (phase stays "lock") a build without them takes the same steps
InitLock ==
    /\ plan = <<>>
    /\ nput = 0
    /\ phase = "lock"
    /\ enc = RleEncoder_New
    /\ flushed = 0
    /\ dec = RleDecoder_New(<<>>)
    /\ consumed = 0
    /\ op = NoOp
    /\ hist = NoHist
    /\ ndebug = FALSE
    /\ state_ = Unlocked
    /\ threads = [t \in Threads |-> At("idle")]
    /\ locks_ = <<>>
    /\ callers = <<>>

NextLock ==
    \E t \in Threads :
        \/ lock_shared(t)
        \/ unlock_shared(t)
        \/ try_lock(t)
        \/ lock(t)
        \/ WaitPendingReaders(t)
        \/ unlock(t)

\* the steps a scheduled thread takes by itself: those of a call it is in
\* (the spin loops yield, they do not block), and a reader's unlock_shared
Running(t) ==
    \/ threads[t].pc # "idle" /\ lock_shared(t)
    \/ unlock_shared(t)
    \/ threads[t].pc # "idle" /\ try_lock(t)
    \/ threads[t].pc # "idle" /\ lock(t)
    \/ WaitPendingReaders(t)

SpecLock == InitLock /\ [][NextLock]_vars /\ \A t \in Threads : WF_vars(Running(t))

-----------------------------------------------------------------------------
(* percpu_rwlock (locks.h): n_cpus_ rw_spinlocks, one per CPU. locks_[i]    *)
(* holds the lock word of locks_[i].lock and, beside it, the thread whose   *)
(* compare-and-swap set its write flag (0: no thread), which the program    *)
(* does not store. Each thread is at a place (pc) of a member function of   *)
(* percpu_rwlock, or of the rw_spinlock get_lock() gave it, with the loop    *)
(* index i (for a reader: the CPU it was on in get_lock()), the local       *)
(* cur_state (which exists inside the loops only), and how its last        *)
(* try_lock ended. Every load, compare-and-swap and store of a lock word    *)
(* is one step.                                                             *)

\* n_cpus_ = sysconf(_SC_NPROCESSORS_CONF)
NumCpus == 2

Cpus == 0..(NumCpus - 1)

\* the threads using the percpu_rwlock: three at most, four threads over
\* three locks being out of reach
PerCpuThreads == 1..Min(NumThreads, 3)

\* no try_lock has returned to the thread
NoCall == [ret |-> FALSE, taken |-> 0, called |-> FALSE]

\* a thread outside every call
NoCaller == [pc |-> "idle", i |-> 0, cur_state |-> Unlocked, last |-> NoCall, foreign |-> FALSE]

\* try_lock returned ret after setting the write flag of `taken` locks
Returned(ret, taken) == [ret |-> ret, taken |-> taken, called |-> TRUE]

\* where a failed DCHECK leaves the program
PerCpuOutcome(dcheck) == IF dcheck \/ ndebug THEN "percpu" ELSE "abort"

\* the variables of the codec and of the single rw_spinlock
NotPerCpu == <<plan, nput, enc, flushed, dec, consumed, op, hist, ndebug, state_, threads>>

\* cur_state = NoBarrier_Load(&state_) at the head of a member function of
\* locks_[i].lock
LoadOf(t, i, to) ==
    /\ callers' = [callers EXCEPT ![t] = [@ EXCEPT !.pc = to, !.i = i,
                                                   !.cur_state = locks_[i].lock]]
    /\ UNCHANGED <<phase, locks_>>

\* cur_state = Acquire_CompareAndSwap(&state_, expected, try_new_state) on
\* locks_[i].lock and the test that leaves the loop; writer is the thread
\* that holds the write flag if the swap is made
CompareAndSwapOf(t, i, expected, try_new_state, writer, done) ==
    /\ locks_' = IF locks_[i].lock = expected
                 THEN [locks_ EXCEPT ![i] = [lock |-> try_new_state, writer |-> writer]]
                 ELSE locks_
    /\ callers' = [callers EXCEPT ![t] = IF locks_[i].lock = expected
                                         THEN [@ EXCEPT !.pc = done, !.cur_state = Unlocked,
                                                        !.i = IF done = "idle" THEN 0 ELSE @]
                                         ELSE [@ EXCEPT !.cur_state = locks_[i].lock]]
    /\ UNCHANGED phase

\* locks_[i].lock.unlock() by thread t, which goes on as `then` says
UnlockOf(t, i, then) ==
    \E next \in {PerCpuOutcome(locks_[i].lock = kWriteFlag)} :
        /\ phase' = next
        /\ locks_' = IF next = "percpu"
                     THEN [locks_ EXCEPT ![i] = [lock |-> Unlocked, writer |-> 0]]
                     ELSE locks_
        /\ callers' = IF next = "percpu"
                      THEN [callers EXCEPT ![t] =
                               [then EXCEPT !.foreign = @ \/ locks_[i].writer # t]]
                      ELSE callers

\* mutant: the locks taken are passed over without being unlocked
ReleaseAcquired_NoStore(t) ==
    /\ phase = "percpu"
    /\ callers[t].pc = "try_lock_release"
    /\ callers' = [callers EXCEPT ![t] = IF callers[t].i = 0
                                         THEN [@ EXCEPT !.pc = "idle"]
                                         ELSE [@ EXCEPT !.i = @ - 1]]
    /\ UNCHANGED <<phase, locks_>>
    /\ UNCHANGED NotPerCpu

\* while (i--) locks_[i].lock.unlock(); return false: one unlock, and the
\* test of the loop after it
ReleaseAcquired(t) ==
    /\ phase = "percpu"
    /\ callers[t].pc = "try_lock_release"
    /\ UnlockOf(t, callers[t].i, IF callers[t].i = 0
                                 THEN [callers[t] EXCEPT !.pc = "idle"]
                                 ELSE [callers[t] EXCEPT !.i = @ - 1])
    /\ UNCHANGED NotPerCpu

percpu_rwlock_try_lock(t) ==
    \/ /\ phase = "percpu"
       /\ callers[t].pc = "idle"
       /\ callers' = [callers EXCEPT ![t] = [@ EXCEPT !.pc = "try_lock", !.i = 0,
                                                      !.cur_state = locks_[0].lock,
                                                      !.last = NoCall]]
       /\ UNCHANGED <<phase, locks_>>
       /\ UNCHANGED NotPerCpu
    \/ /\ phase = "percpu"
       /\ callers[t].pc = "try_lock_load"
       /\ LoadOf(t, callers[t].i, "try_lock")
       /\ UNCHANGED NotPerCpu
    \/ /\ phase = "percpu"
       /\ callers[t].pc = "try_lock"
       /\ IF callers[t].cur_state.write_flag
          THEN /\ callers' = [callers EXCEPT ![t] =
                                 [@ EXCEPT !.pc = IF callers[t].i = 0 THEN "idle"
                                                                      ELSE "try_lock_release",
                                           !.i = IF @ = 0 THEN 0 ELSE @ - 1,
                                           !.cur_state = Unlocked,
                                           !.last = Returned(FALSE, callers[t].i)]]
               /\ UNCHANGED <<phase, locks_>>
          ELSE LET expected == Masked(callers[t].cur_state)
               IN  CompareAndSwapOf(t, callers[t].i, expected, WithWriteFlag(expected), t,
                                    "try_lock_wait")
       /\ UNCHANGED NotPerCpu
    \/ /\ phase = "percpu"
       /\ callers[t].pc = "try_lock_wait"
       /\ ~(locks_[callers[t].i].lock.num_readers > 0)
       /\ callers' = [callers EXCEPT ![t] =
                         IF @.i + 1 < NumCpus
                         THEN [@ EXCEPT !.pc = "try_lock_load", !.i = @ + 1]
                         ELSE [@ EXCEPT !.pc = "locked", !.i = 0,
                                        !.last = Returned(TRUE, NumCpus)]]
       /\ UNCHANGED <<phase, locks_>>
       /\ UNCHANGED NotPerCpu
    \/ ReleaseAcquired(t)

percpu_rwlock_lock(t) ==
    \/ /\ phase = "percpu"
       /\ callers[t].pc = "idle"
       /\ callers' = [callers EXCEPT ![t] = [@ EXCEPT !.pc = "lock", !.i = 0,
                                                      !.cur_state = locks_[0].lock,
                                                      !.last = NoCall]]
       /\ UNCHANGED <<phase, locks_>>
       /\ UNCHANGED NotPerCpu
    \/ /\ phase = "percpu"
       /\ callers[t].pc = "lock_load"
       /\ LoadOf(t, callers[t].i, "lock")
       /\ UNCHANGED NotPerCpu
    \/ /\ phase = "percpu"
       /\ callers[t].pc = "lock"
       /\ LET expected == Masked(callers[t].cur_state)
          IN  CompareAndSwapOf(t, callers[t].i, expected, WithWriteFlag(expected), t,
                               "lock_wait")
       /\ UNCHANGED NotPerCpu
    \/ /\ phase = "percpu"
       /\ callers[t].pc = "lock_wait"
       /\ ~(locks_[callers[t].i].lock.num_readers > 0)
       /\ callers' = [callers EXCEPT ![t] =
                         IF @.i + 1 < NumCpus
                         THEN [@ EXCEPT !.pc = "lock_load", !.i = @ + 1]
                         ELSE [@ EXCEPT !.pc = "locked", !.i = 0]]
       /\ UNCHANGED <<phase, locks_>>
       /\ UNCHANGED NotPerCpu

\* for (i = 0; i < n_cpus_; i++) locks_[i].lock.unlock(), by a thread that
\* holds the write lock
percpu_rwlock_unlock(t) ==
    /\ phase = "percpu"
    /\ callers[t].pc \in {"locked", "unlock"}
    /\ UnlockOf(t, callers[t].i, IF callers[t].i + 1 < NumCpus
                                 THEN [callers[t] EXCEPT !.pc = "unlock", !.i = @ + 1,
                                                         !.last = NoCall]
                                 ELSE [callers[t] EXCEPT !.pc = "idle", !.i = 0,
                                                         !.last = NoCall])
    /\ UNCHANGED NotPerCpu

\* boost::shared_lock<rw_spinlock> lock(mylock.get_lock()): get_lock() on
\* any CPU, then lock_shared() of that CPU's lock
get_lock_lock_shared(t) ==
    \/ /\ phase = "percpu"
       /\ callers[t].pc = "idle"
       /\ \E cpu \in Cpus :
              callers' = [callers EXCEPT ![t] = [@ EXCEPT !.pc = "lock_shared", !.i = cpu,
                                                         !.cur_state = locks_[cpu].lock,
                                                         !.last = NoCall]]
       /\ UNCHANGED <<phase, locks_>>
       /\ UNCHANGED NotPerCpu
    \/ /\ phase = "percpu"
       /\ callers[t].pc = "lock_shared"
       /\ LET expected == Masked(callers[t].cur_state)
          IN  CompareAndSwapOf(t, callers[t].i, expected, PlusOne(expected),
                               locks_[callers[t].i].writer, "shared")
       /\ UNCHANGED NotPerCpu

\* the end of the shared_lock's scope: unlock_shared() of the lock it holds
get_lock_unlock_shared(t) ==
    \/ /\ phase = "percpu"
       /\ callers[t].pc = "shared"
       /\ LoadOf(t, callers[t].i, "unlock_shared")
       /\ UNCHANGED NotPerCpu
    \/ /\ phase = "percpu"
       /\ callers[t].pc = "unlock_shared"
       /\ \E next \in {PerCpuOutcome(callers[t].cur_state.num_readers > 0)} :
              IF next = "percpu"
              THEN CompareAndSwapOf(t, callers[t].i, callers[t].cur_state,
                                    MinusOne(callers[t].cur_state),
                                    locks_[callers[t].i].writer, "idle")
              ELSE phase' = next /\ UNCHANGED <<locks_, callers>>
       /\ UNCHANGED NotPerCpu

\* a percpu_rwlock newly constructed, in a build with DCHECKs
InitPerCpu ==
    /\ plan = <<>>
    /\ nput = 0
    /\ phase = "percpu"
    /\ enc = RleEncoder_New
    /\ flushed = 0
    /\ dec = RleDecoder_New(<<>>)
    /\ consumed = 0
    /\ op = NoOp
    /\ hist = NoHist
    /\ ndebug = FALSE
    /\ state_ = Unlocked
    /\ threads = [t \in {} |-> "idle"]
    /\ locks_ = [i \in Cpus |-> [lock |-> Unlocked, writer |-> 0]]
    /\ callers = [t \in PerCpuThreads |-> NoCaller]

NextPerCpu ==
    \E t \in PerCpuThreads :
        \/ percpu_rwlock_try_lock(t)
        \/ percpu_rwlock_lock(t)
        \/ percpu_rwlock_unlock(t)
        \/ get_lock_lock_shared(t)
        \/ get_lock_unlock_shared(t)

SpecPerCpu == InitPerCpu /\ [][NextPerCpu]_vars

-----------------------------------------------------------------------------
(* Properties.                                                             *)

\* number of values the flushed stream holds
Total == ValuesFrom(dec.bit_reader_.buffer, 0)

\* C1: round trip. Once the whole input has been put and flushed, a Get made
\* with fewer than Len(plan) values consumed returns true and the next value
\* of the input, in order.
C1_RoundTrip ==
    (op.name = "Get" /\ op.before < Len(plan)) =>
        (op.ret /\ op.val = plan[op.before + 1])

\* the last value of an input that holds a literal and a repeated run has been
\* returned by Get, after another Get
C1_Witness ==
    /\ op.name = "Get" /\ hist.name = "Get" /\ op.ret
    /\ op.before + 1 = Len(plan)
    /\ Len(plan) >= 16
    /\ Len(dec.bit_reader_.buffer) >= 4

\* C2: Skip(k) returns the number of true values among the k values it skips.
C2_SkipCount ==
    op.name = "Skip" => op.set_count = TrueCount(op.before, op.arg)

\* C3: Skip(k) advances by exactly k values: the Get that follows a Skip
\* returns the value that comes k places after the position before the Skip
\* (before counts those k values), and the values left are k fewer.
C3_SkipPosition ==
    /\ op.name = "Skip" => Remaining(dec) = Total - (op.before + op.arg)
    /\ (op.name = "Get" /\ hist.name = "Skip" /\ op.before < Total) =>
           (op.ret /\ op.val = Expected(op.before + 1))

\* a Get after a Skip that ended inside a literal run, inside a repeated run, or
\* on a run boundary
C3_Witness ==
    /\ op.name = "Get" /\ hist.name = "Skip" /\ op.ret /\ op.val
    /\ dec.repeat_count_ > 0
    /\ op.before >= 9

\* C4: every GetNextRun that returns true yields a value and a length >= 1
\* such that the next run_length values of the stream all equal the value and
\* the value after them (if any) differs; the run returned by the GetNextRun
\* before it has the other value; GetNextRun returns false, with length 0,
\* only when the whole stream has been consumed. Hence the pairs returned from
\* the start of a stream concatenate to the stream and are maximal.
C4_RunsMaximal ==
    op.name = "GetNextRun" =>
        IF op.ret
        THEN /\ op.run_length >= 1
             /\ \A j \in (op.before + 1)..(op.before + op.run_length) : Expected(j) = op.val
             /\ consumed <= Total
             /\ consumed < Total => Expected(consumed + 1) # op.val
             /\ (hist.name = "GetNextRun" /\ hist.ret) => hist.val # op.val
        ELSE op.run_length = 0 /\ op.before = Total

\* a run of twelve equal values that starts in a literal run and ends with the
\* repeated run after it, returned by the second GetNextRun
C4_Witness ==
    /\ op.name = "GetNextRun" /\ hist.name = "GetNextRun" /\ op.ret
    /\ op.before = 4 /\ op.run_length = 12
    /\ dec.bit_reader_.buffer = <<3, 240, 16, 1>>

\* a run of two equal values, one on each side of the boundary between two
\* literal runs (the first closed at 63 groups)
C4_WitnessTwoLiterals ==
    /\ op.name = "GetNextRun" /\ hist.name = "GetNextRun" /\ op.ret
    /\ op.before = 503 /\ op.run_length = 2
    /\ Len(enc.written_groups) >= 2 /\ enc.written_groups[1] = 63

\* C5: a GetNextRun that returned on a differing literal bit has not consumed
\* that bit: the values left are exactly those after the run, the literal run
\* is still open, and the Get that follows returns that bit, which is the
\* first value of the next run and differs from the run's value.
C5_Rewind ==
    /\ (op.name = "GetNextRun" /\ op.rewound) =>
           (dec.literal_count_ > 0 /\ Remaining(dec) = Total - consumed)
    /\ (op.name = "Get" /\ hist.name = "GetNextRun" /\ hist.rewound) =>
           (op.ret /\ op.val = Expected(op.before + 1) /\ op.val # hist.val)

\* Get has returned the true bit on which the GetNextRun before it stopped
C5_Witness ==
    /\ op.name = "Get" /\ hist.name = "GetNextRun" /\ hist.rewound
    /\ op.ret /\ op.val /\ op.before >= 1

\* C6: every literal indicator the encoder has written encodes a number of
\* groups below 128, so (num_groups << 1) | 1 fits in the byte reserved for it.
C6_HeaderBound ==
    \A i \in 1..Len(enc.written_groups) : enc.written_groups[i] < 128

\* a literal run has been closed at 63 groups, another one after it, and the
\* stream is flushed
C6_Witness ==
    /\ phase = "decode"
    /\ Len(enc.written_groups) = 3
    /\ enc.written_groups[1] = 63 /\ enc.written_groups[2] = 63

RECURSIVE WellFormedFrom(_, _)
\* the bytes from `byte` on are a concatenation of well-formed runs
WellFormedFrom(buffer, byte) ==
    IF byte = Len(buffer) THEN TRUE
    ELSE LET g == BitReader_GetVlqInt([buffer |-> buffer, pos |-> 8 * byte])
             next == g.r.pos \div 8
             count == g.val \div 2
         IN  /\ g.ok
             /\ count >= 1
             /\ IF g.val % 2 = 1
                THEN /\ next + count <= Len(buffer)
                     /\ WellFormedFrom(buffer, next + count)
                ELSE /\ next + 1 <= Len(buffer)
                     /\ buffer[next + 1] \in {0, 1}
                     /\ WellFormedFrom(buffer, next + 1)

\* C7: after the Put calls and one Flush the buffer is a concatenation of
\* literal runs (indicator with num_groups >= 1, then num_groups bytes) and
\* repeated runs (indicator with num_repetitions >= 1, then one byte 0 or 1),
\* with no byte left over, and Flush returns its length.
C7_WellFormed ==
    phase = "decode" =>
        /\ WellFormedFrom(enc.bit_writer_.buffer, 0)
        /\ flushed = Len(enc.bit_writer_.buffer)

\* a flushed stream that holds a literal run, a repeated run after it and a
\* padded literal run at its end
C7_Witness ==
    /\ phase = "decode" /\ op.name = "Flush"
    /\ Len(enc.written_groups) = 2
    /\ Len(enc.bit_writer_.buffer) >= 6
    /\ Total > Len(plan)

RECURSIVE PutRepeatedly(_, _, _)
\* n calls Put(value), each with run_length 1
PutRepeatedly(e, value, n) ==
    IF n = 0 THEN e ELSE RleEncoder_Put(PutRepeatedly(e, value, n - 1), value, 1)

RECURSIVE PutOneByOne(_)
\* a fresh encoder that has been given the first n values of plan one at a time
PutOneByOne(n) ==
    IF n = 0 THEN RleEncoder_New ELSE RleEncoder_Put(PutOneByOne(n - 1), plan[n], 1)

\* C8: a call Put(v, n) leaves the encoder, buffer included, in the state that n
\* calls Put(v) leave it in; hence the bytes in the buffer after Flush and the
\* value Flush returns are those of putting the input one value at a time.
C8_ScheduleInvariance ==
    /\ [][op'.name = "Put" => enc' = PutRepeatedly(enc, op'.val, op'.arg)]_vars
    /\ [](phase = "decode" =>
            LET f == RleEncoder_Flush(PutOneByOne(Len(plan)))
            IN  /\ enc.bit_writer_.buffer = f.e.bit_writer_.buffer
                /\ flushed = f.ret)

\* a Put with run_length 3 that took repeat_count_ from below 8 to above 8
C8_Witness ==
    /\ op.name = "Put" /\ op.arg = 3
    /\ enc.repeat_count_ = 10 /\ nput = 10

RECURSIVE VlqBytes(_)
\* the bytes of varint_encode(v)
VlqBytes(v) == IF v < 128 THEN <<v>> ELSE <<(v % 128) + 128>> \o VlqBytes(v \div 128)

vlq_len(v) == Len(VlqBytes(v))

AllEqual(s) == \A i \in 1..Len(s) : s[i] = s[1]

\* C9: N >= 8 identical values put into a fresh encoder and flushed give one
\* repeated run: varint(N << 1) then the value byte, vlq_len(N << 1) + 1 bytes.
C9_RepetitionSize ==
    (phase = "decode" /\ Len(plan) >= 8 /\ AllEqual(plan)) =>
        /\ enc.bit_writer_.buffer = VlqBytes(Len(plan) * 2) \o <<B2I(plan[1])>>
        /\ flushed = vlq_len(Len(plan) * 2) + 1

\* at least 64 true values, whose indicator takes two bytes, have been flushed
C9_Witness ==
    /\ phase = "decode" /\ Len(plan) >= 64 /\ AllEqual(plan) /\ plan[1]
    /\ flushed = 3

\* s is true, false, true, ... and holds a positive multiple of 8 values
Alternating8k(s) ==
    /\ Len(s) >= 8 /\ Len(s) % 8 = 0
    /\ \A i \in 1..Len(s) : s[i] = (i % 2 = 1)

\* C10 as stated: an alternating input of 8k values is encoded in
\* vlq_len((k << 1) | 1) + k bytes, for every k >= 1.
C10_Original ==
    (phase = "decode" /\ Alternating8k(plan)) =>
        LET k == Len(plan) \div 8
        IN  flushed = vlq_len((k * 2) + 1) + k

\* C10 amended: an alternating input of 8k values is encoded in literal runs of
\* at most 63 groups, each with a one-byte indicator, k + ceil(k / 63) bytes in
\* all; this is vlq_len((k << 1) | 1) + k for every k from 1 to 126, and for
\* k = 25 the bytes are 0x33 followed by 25 bytes 0x55.
C10_LiteralSize ==
    (phase = "decode" /\ Alternating8k(plan)) =>
        LET k == Len(plan) \div 8
        IN  /\ flushed = k + ((k + 62) \div 63)
            /\ k <= 126 => flushed = vlq_len((k * 2) + 1) + k
            /\ k = 25 => enc.bit_writer_.buffer = <<51>> \o [i \in 1..25 |-> 85]

\* an alternating input of 126 groups, which fills two literal runs, is flushed
C10_Witness ==
    /\ phase = "decode" /\ Alternating8k(plan)
    /\ Len(plan) = 8 * 126
    /\ enc.written_groups = <<63, 63>>

\* C11 as stated: four zeros then twelve ones are encoded as one literal group
\* (four zeros, four ones) and a repeated run of 4 ones, the bytes 03 F0 08 01.
C11_Original ==
    (phase = "decode" /\ plan = S5Input) =>
        enc.bit_writer_.buffer = <<3, 240, 8, 1>>

\* C11 amended: four zeros then twelve ones are encoded as one literal group
\* (four zeros, four ones) and a repeated run of the 8 ones left, the bytes
\* 03 F0 10 01; GetNextRun then returns (0, 4) and (1, 12).
C11_S5Bytes ==
    (phase = "decode" /\ plan = S5Input) =>
        /\ enc.bit_writer_.buffer = <<3, 240, 16, 1>>
        /\ enc.written_groups = <<1>>
        /\ flushed = 4
        /\ (op.name = "GetNextRun" /\ op.before = 0) =>
               (op.ret /\ ~op.val /\ op.run_length = 4)
        /\ (op.name = "GetNextRun" /\ op.before = 4) =>
               (op.ret /\ op.val /\ op.run_length = 12)

\* S5 has been put, flushed and read back as two runs
C11_Witness ==
    /\ phase = "decode" /\ plan = S5Input
    /\ op.name = "GetNextRun" /\ op.before = 4 /\ consumed = 16
    /\ hist.name = "GetNextRun"

C16_Terminates == phase # "stuck"

\* C17: a Get or GetNextRun that reads an indicator with count zero, a repeated
\* indicator without its value byte, or a literal run cut short of its
\* announced bits ends in the abort state.
C17_MalformedAborts ==
    (op.name \in {"Get", "GetNextRun"} /\ op.failed) => phase = "abort"

\* C13: a Flush of an encoder that has been given no value since it was
\* constructed or cleared writes no byte and returns 0; on an empty input Get
\* returns false, and GetNextRun returns false with run_length 0.
C13_EmptyStream ==
    /\ (op.name = "Flush" /\ nput = 0) =>
           (flushed = 0 /\ enc.bit_writer_.buffer = <<>>)
    /\ (op.name = "Get" /\ dec.bit_reader_.buffer = <<>>) => ~op.ret
    /\ (op.name = "GetNextRun" /\ dec.bit_reader_.buffer = <<>>) =>
           (~op.ret /\ op.run_length = 0)

\* an encoder that had been given values (one is still in buffered_values_) was
\* cleared and flushed, and Get, then GetNextRun, were called on what it wrote
C13_Witness ==
    /\ op.name = "GetNextRun" /\ hist.name = "Get" /\ ~op.ret
    /\ nput = 0 /\ flushed = 0 /\ dec.bit_reader_.buffer = <<>>
    /\ \E i \in 0..7 : enc.buffered_values_[i]

\* C14: once every value of the stream has been consumed, Get returns false
\* and GetNextRun returns false with run_length 0, and such a call leaves the
\* decoder (repeat_count_, literal_count_, the read position) as it was; so
\* the same holds of every later call. GetNextRun returns false only then.
C14_Exhaustion ==
    /\ [][(phase = "decode" /\ consumed = Total /\ op'.name \in {"Get", "GetNextRun"}) =>
              (~op'.ret /\ op'.run_length = 0 /\ dec' = dec /\ consumed' = consumed)]_vars
    /\ []((op.name = "GetNextRun" /\ ~op.ret) => op.before = Total)

\* every value of a stream of two runs or more has been consumed; then
\* GetNextRun, and after it Get, returned false
C14_Witness ==
    /\ op.name = "Get" /\ ~op.ret
    /\ hist.name = "GetNextRun" /\ ~hist.ret
    /\ consumed = Total /\ Total >= 16
    /\ Len(dec.bit_reader_.buffer) >= 4

RECURSIVE PutSeq(_, _)
\* the encoder e after Put(s[1]), Put(s[2]), ...
PutSeq(e, s) == IF s = <<>> THEN e ELSE PutSeq(RleEncoder_Put(e, Head(s), 1), Tail(s))

\* what Flush returns and leaves in the buffer
FlushResult(e) ==
    LET f == RleEncoder_Flush(e)
    IN  <<f.ret, f.e.bit_writer_.buffer>>

\* C15: right after Clear the encoder has repeat_count_, num_buffered_values_
\* and literal_count_ zero, current_value_ false, no indicator byte reserved
\* and an empty buffer, and encoding a sequence with it gives the bytes and
\* the Flush result that a newly constructed encoder gives.
C15_ClearResets ==
    op.name = "Clear" =>
        /\ enc.repeat_count_ = 0
        /\ enc.num_buffered_values_ = 0
        /\ enc.literal_count_ = 0
        /\ enc.current_value_ = FALSE
        /\ enc.literal_indicator_byte_ = -1
        /\ enc.bit_writer_ = BitWriter_Clear
        /\ \A s \in ShortInputs \cup EncInputs :
               FlushResult(PutSeq(enc, s)) = FlushResult(PutSeq(RleEncoder_New, s))

\* Clear has been called on an encoder that still holds a true value in
\* buffered_values_
C15_Witness ==
    /\ op.name = "Clear"
    /\ \E i \in 0..7 : enc.buffered_values_[i]
    /\ Len(plan) >= 12

\* C20: after every Put, Flush and Clear, 0 <= num_buffered_values_ <= 8 and
\* literal_count_ is a multiple of 8.
C20_LookaheadInvariant ==
    /\ 0 <= enc.num_buffered_values_ /\ enc.num_buffered_values_ <= 8
    /\ enc.literal_count_ % 8 = 0

\* after a Flush in mid-input, Put has filled a literal group and is buffering
\* the next values
C20_Witness ==
    /\ op.name = "Put"
    /\ enc.literal_count_ = 8 /\ enc.num_buffered_values_ = 3
    /\ Len(enc.bit_writer_.buffer) >= 4

\* the thread has returned from lock(), or from try_lock() with true, and has
\* not called unlock()
HoldsWrite(t) == threads[t].pc \in {"locked", "try_locked"}

\* the thread has returned from lock_shared() and its unlock_shared() has not
\* taken it out of the reader count
HoldsShared(t) == threads[t].pc \in {"shared", "unlock_shared"}

\* C18: while a thread holds the write lock no other thread holds it, no
\* thread holds a shared lock, and state_ equals kWriteFlag exactly (the
\* DCHECK of unlock holds, so no build aborts).
C18_MutualExclusion ==
    /\ \A t \in DOMAIN threads :
           HoldsWrite(t) =>
               /\ state_ = kWriteFlag
               /\ \A u \in DOMAIN threads \ {t} : ~HoldsWrite(u) /\ ~HoldsShared(u)
    /\ phase # "abort"

\* a thread got the write lock from try_lock() while a second thread spins in
\* lock() and a third in lock_shared(), both having seen the lock free
C18_Witness ==
    \E t, u, v \in DOMAIN threads :
        /\ threads[t].pc = "try_locked"
        /\ threads[u].pc = "lock" /\ threads[u].cur_state = Unlocked
        /\ threads[v].pc = "lock_shared" /\ threads[v].cur_state = Unlocked

\* a writer has set the write flag and has not returned from lock()
Waiting(t) == threads[t].pc = "lock_wait"

\* C19: while the write flag is set no lock_shared() completes and the number
\* of readers does not grow; and, every thread being scheduled and every
\* reader calling unlock_shared(), a writer that has set the write flag in
\* lock() returns from lock(). The threads run the same code: the writer
\* followed is thread 1.
C19_NoWriteStarvation ==
    /\ [][state_.write_flag =>
             /\ \A t \in DOMAIN threads :
                    threads'[t].pc = "shared" => threads[t].pc = "shared"
             /\ state_'.write_flag => state_'.num_readers <= state_.num_readers]_vars
    /\ Waiting(1) ~> threads[1].pc = "locked"

\* a writer set the write flag over two readers and waits; one of them is now
\* in unlock_shared()
C19_Witness ==
    \E u, v \in DOMAIN threads :
        /\ Waiting(1) /\ state_ = [write_flag |-> TRUE, num_readers |-> 2]
        /\ threads[u].pc = "unlock_shared" /\ threads[v].pc = "shared"

\* C21: after every Put, Flush and Clear, repeat_count_ >= 8 implies that
\* num_buffered_values_ is 0; and when num_buffered_values_ > 0, repeat_count_
\* is at most num_buffered_values_ and the last repeat_count_ buffered values
\* all equal current_value_.
C21_RepeatCountInvariant ==
    /\ enc.repeat_count_ >= 8 => enc.num_buffered_values_ = 0
    /\ enc.num_buffered_values_ > 0 =>
           /\ enc.repeat_count_ <= enc.num_buffered_values_
           /\ \A i \in (enc.num_buffered_values_ - enc.repeat_count_)..
                       (enc.num_buffered_values_ - 1) :
                  enc.buffered_values_[i] = enc.current_value_

\* Put has buffered values of which the last two or more, not all, are equal
C21_Witness ==
    /\ op.name = "Put"
    /\ enc.repeat_count_ >= 2
    /\ enc.num_buffered_values_ > enc.repeat_count_
    /\ enc.buffered_values_[0] # enc.current_value_

\* C22: after every Put, Flush and Clear an indicator byte is reserved exactly
\* when literal_count_ > 0; the buffer then ends with that byte and the
\* literal_count_ bits of the run; and no literal run is open together with a
\* repeated run (repeat_count_ >= 8).
C22_OneOpenRun ==
    /\ (enc.literal_indicator_byte_ >= 0) <=> (enc.literal_count_ > 0)
    /\ enc.literal_count_ > 0 =>
           /\ enc.bit_writer_.bit_offset = 0
           /\ 8 * (Len(enc.bit_writer_.buffer) - (enc.literal_indicator_byte_ + 1))
                  = enc.literal_count_
    /\ ~(enc.literal_count_ > 0 /\ enc.repeat_count_ >= 8)

\* the eighth of eight equal values has closed the literal run that was open
\* and left a repeated run open
C22_Witness ==
    /\ op.name = "Put"
    /\ enc.repeat_count_ = 8 /\ enc.literal_count_ = 0
    /\ enc.written_groups = <<1>>

\* C24: no DCHECK of the encoder meets a false condition, whatever is put,
\* flushed and cleared: not those of Put (line 303), of FlushBufferedValues
\* (368, 380) and of Flush (401-403), nor any other.
C24_AssertionsHold == enc.dchecks_failed = {}

\* Each of these DCHECKs has been met in one encoding: a literal run closed at
\* the group limit, one closed by eight equal values, a repeated run ended by
\* a differing value, and Flush.
C24_Witness == {303, 368, 380, 401, 402, 403} \subseteq enc.dchecks_passed

\* C26: a Put of a value equal to current_value_ made with repeat_count_ >= 8
\* adds its run_length to repeat_count_ and changes nothing else of the
\* encoder: not the buffer, num_buffered_values_, literal_count_ or
\* literal_indicator_byte_.
C26_FastPath ==
    [][(op'.name = "Put" /\ enc.repeat_count_ >= 8 /\ op'.val = enc.current_value_) =>
           enc' = [enc EXCEPT !.repeat_count_ = @ + op'.arg]]_vars

\* a Put of three values made with repeat_count_ >= 8, after an earlier run
\* was written to the buffer
C26_Witness ==
    /\ op.name = "Put" /\ op.arg = 3
    /\ enc.repeat_count_ >= 11
    /\ op.val = enc.current_value_
    /\ Len(enc.bit_writer_.buffer) >= 2

\* C23: while a flushed stream is decoded with Get, GetNextRun and Skip, the
\* decoder never has repeat_count_ > 0 and literal_count_ > 0 together; a
\* call to ReadHeader reads a header (changes the decoder) only when both
\* are zero; and a literal header it reads leaves literal_count_ a positive
\* multiple of 8, with no DCHECK failed: the values left in a literal run
\* end on a byte boundary.
C23_RunInvariant ==
    phase = "decode" =>
        LET h == RleDecoder_ReadHeader(dec)
        IN  /\ ~(U32Positive(dec.repeat_count_) /\ U32Positive(dec.literal_count_))
            /\ dec.repeat_count_ >= 0 /\ dec.literal_count_ >= 0
            /\ h.d # dec => dec.repeat_count_ = 0 /\ dec.literal_count_ = 0
            /\ ~(U32Positive(h.d.repeat_count_) /\ U32Positive(h.d.literal_count_))
            /\ h.d.literal_count_ # dec.literal_count_ =>
                   /\ h.d.literal_count_ > 0
                   /\ h.d.literal_count_ % 8 = 0
                   /\ ~h.failed
            /\ dec.literal_count_ > 0 =>
                   (dec.literal_count_ + dec.bit_reader_.pos) % 8 = 0

\* a repeated run has been read to its end by Get, Skip and GetNextRun calls
\* and the next call is to read the header of a literal run of two groups
C23_Witness ==
    /\ phase = "decode" /\ consumed >= 8
    /\ dec.repeat_count_ = 0 /\ dec.literal_count_ = 0
    /\ RleDecoder_ReadHeader(dec).d.literal_count_ = 16
    /\ op.name \in {"Skip", "GetNextRun"}

\* the number of values the encoder e has been given and has not yet
\* written to the buffer
NumPending(e) == IF e.repeat_count_ >= 8 THEN e.repeat_count_ ELSE e.num_buffered_values_

\* every value of e not yet written to the buffer equals current_value_
PendingAllCurrent(e) ==
    \/ e.repeat_count_ >= 8
    \/ \A i \in 0..(e.num_buffered_values_ - 1) : e.buffered_values_[i] = e.current_value_

\* bit k (0: least significant) of byte number `byte` (0-based) of buffer
BufferBit(buffer, byte, k) == BitAt(buffer, (8 * byte) + k)

\* C25: a Flush with something pending appends one repeated run, of as many
\* repetitions as there are pending values, exactly when no literal run is
\* open and every pending value equals current_value_. Otherwise the
\* lookahead values become the next bits of the literal run (opened now if
\* none is open), the last group is padded with zero bits, and the indicator
\* byte of the run becomes 2 * ceil(literal_count / 8) + 1, literal_count
\* including the lookahead values. With nothing pending nothing is written.
C25_FlushChoice ==
    [][op'.name = "Flush" =>
        LET e == enc
            old == e.bit_writer_.buffer
            new == enc'.bit_writer_.buffer
            open == e.literal_count_ > 0
            n == NumPending(e)
            start == IF open THEN e.literal_indicator_byte_ ELSE Len(old)
            literal_count == e.literal_count_ + e.num_buffered_values_
            num_groups == BitmapSize(literal_count)
        IN  IF ~open /\ n = 0
            THEN new = old
            ELSE IF ~open /\ PendingAllCurrent(e)
                 THEN new = old \o VlqBytes(2 * n) \o <<B2I(e.current_value_)>>
                 ELSE /\ Len(new) = start + 1 + num_groups
                      /\ new[start + 1] = (2 * num_groups) + 1
                      /\ \A j \in 1..Len(old) : j # start + 1 => new[j] = old[j]
                      /\ \A k \in 0..((8 * num_groups) - 1) :
                             BufferBit(new, start + 1, k) =
                                 IF k < e.literal_count_ THEN BufferBit(old, start + 1, k)
                                 ELSE IF k < literal_count
                                      THEN e.buffered_values_[k - e.literal_count_]
                                      ELSE FALSE]_vars

\* a Flush has closed a literal run of two values, and a later Flush has
\* written the three equal values put since then as a repeated run of three
C25_Witness ==
    /\ op.name = "Flush"
    /\ Len(enc.bit_writer_.buffer) = 4
    /\ enc.bit_writer_.buffer[1] = 3 /\ enc.bit_writer_.buffer[2] \in {1, 2}
    /\ enc.bit_writer_.buffer[3] = 6
    /\ nput = 5

\* a Flush has closed an open literal run of eight values together with
\* three equal values of the lookahead
C25_WitnessOpenLiteral ==
    /\ op.name = "Flush"
    /\ Len(enc.bit_writer_.buffer) = 3
    /\ enc.bit_writer_.buffer[1] = 5 /\ enc.bit_writer_.buffer[3] \in {0, 7}
    /\ nput = 11

RECURSIVE RunStarts(_, _)
\* the indexes (0-based) of the bytes at which the runs from `byte` on start
RunStarts(buffer, byte) ==
    LET g == BitReader_GetVlqInt([buffer |-> buffer, pos |-> 8 * byte])
        next == g.r.pos \div 8
    IN  IF ~g.ok THEN {}
        ELSE {byte} \cup RunStarts(buffer, IF g.val % 2 = 1 THEN next + (g.val \div 2)
                                                             ELSE next + 1)

\* the decoder d is about to read a header
AtHeader(d) ==
    /\ d.repeat_count_ = 0 /\ d.literal_count_ = 0
    /\ BitReader_GetVlqInt(d.bit_reader_).ok

\* the index (0-based) of the byte after the indicator that d is about to read
ValueByte(d) == BitReader_GetVlqInt(d.bit_reader_).r.pos \div 8

\* what C27 says of a repeated header read from d, the reader being found
\* value_bits bits past the start of the value byte afterwards
RepeatedValueRead(d, value_bits) ==
    LET h == RleDecoder_ReadHeader(d)
        buffer == d.bit_reader_.buffer
        after == [h.d EXCEPT !.repeat_count_ = 0]
    IN  (AtHeader(d) /\ U32Positive(h.d.repeat_count_)) =>
            /\ ~h.failed
            /\ h.d.bit_reader_.pos = (8 * ValueByte(d)) + value_bits
            /\ buffer[ValueByte(d) + 1] = B2I(h.d.current_value_)
            /\ LET next == BitReader_GetVlqInt(after.bit_reader_)
                   from_next_byte == BitReader_GetVlqInt(
                                         [buffer |-> buffer, pos |-> 8 * (ValueByte(d) + 1)])
               IN  /\ next.ok = from_next_byte.ok
                   /\ next.ok => next.val = from_next_byte.val /\ next.r = from_next_byte.r

\* every header is read at the start of a run of the stream
HeadersAtRunStarts ==
    AtHeader(dec) => ((dec.bit_reader_.pos + 7) \div 8) \in RunStarts(dec.bit_reader_.buffer, 0)

\* C27 as stated: reading a repeated header reads the whole value byte (the
\* reader is 8 bits past its start), and the next header is read from the
\* byte after it.
C27_Original ==
    phase = "decode" => RepeatedValueRead(dec, 8) /\ HeadersAtRunStarts

\* C27, amended: reading a repeated header reads one bit of the value byte,
\* bit 0, which is the repeated value (the byte is 0 or 1); the reader is
\* left one bit into the value byte, and the next header is read from the
\* byte after it, GetVlqInt going on to the next byte boundary first. Every
\* header is read at the start of a run, so the value byte is never taken
\* for part of an indicator.
C27_ValueByte ==
    phase = "decode" => RepeatedValueRead(dec, 1) /\ HeadersAtRunStarts

\* a repeated run has been read to its end, the reader is one bit into its
\* value byte, and the header of the repeated run that follows is read next
C27_Witness ==
    /\ phase = "decode"
    /\ dec.bit_reader_.pos % 8 = 1
    /\ AtHeader(dec)
    /\ RleDecoder_ReadHeader(dec).d.repeat_count_ >= 8
    /\ consumed >= 8

RECURSIVE StreamValues(_, _)
\* the values held by the runs of buffer from `byte` on, in stream order
StreamValues(buffer, byte) ==
    LET g == BitReader_GetVlqInt([buffer |-> buffer, pos |-> 8 * byte])
        next == g.r.pos \div 8
        count == g.val \div 2
    IN  IF ~g.ok THEN <<>>
        ELSE IF g.val % 2 = 1
             THEN [k \in 1..(8 * count) |-> BitAt(buffer, (8 * next) + (k - 1))]
                      \o StreamValues(buffer, next + count)
             ELSE [k \in 1..count |-> buffer[next + 1] = 1]
                      \o StreamValues(buffer, next + 1)

\* the most groups a literal run can hold: num_groups + 1 >= (1 << 6) closes it
MaxLiteralGroups == 63

\* a Put step that writes eight lookahead values as the last group a literal
\* run can hold
SplitStep ==
    /\ op'.name = "Put"
    /\ enc.literal_count_ = 8 * (MaxLiteralGroups - 1)
    /\ Len(enc'.bit_writer_.buffer) > Len(enc.bit_writer_.buffer)

\* C28: an open literal run never holds more than 62 groups, and no closed
\* one more than 63. The Put step that brings the open run to 63 groups
\* writes the eight lookahead values as the byte after the 62 written
\* before, sets the indicator byte of the run to (63 << 1) | 1 and leaves no
\* literal run open; a literal run is opened by reserving the byte at the
\* end of what is written. A flushed stream holds the values put, in the
\* order put, whatever the number of literal runs they were split into.
C28_LiteralSplit ==
    /\ [](/\ \A i \in 1..Len(enc.written_groups) : enc.written_groups[i] \in 1..MaxLiteralGroups
          /\ enc.literal_count_ <= 8 * (MaxLiteralGroups - 1)
          /\ (phase = "decode" /\ op.name = "Flush") =>
                 LET values == StreamValues(enc.bit_writer_.buffer, 0)
                 IN  /\ Len(values) >= Len(plan)
                     /\ SubSeq(values, 1, Len(plan)) = plan)
    /\ [][/\ SplitStep =>
                LET old == enc.bit_writer_.buffer
                    new == enc'.bit_writer_.buffer
                    first == nput - enc.num_buffered_values_
                IN  /\ enc'.written_groups = Append(enc.written_groups, MaxLiteralGroups)
                    /\ Len(new) = Len(old) + 1
                    /\ Len(new) = enc.literal_indicator_byte_ + 1 + MaxLiteralGroups
                    /\ new[enc.literal_indicator_byte_ + 1] = (MaxLiteralGroups * 2) + 1
                    /\ \A k \in 0..7 : BufferBit(new, Len(old), k) = plan[first + k + 1]
                    /\ enc'.literal_indicator_byte_ = -1
                    /\ enc'.literal_count_ = 0
          /\ (op'.name = "Put" /\ enc.literal_indicator_byte_ < 0
                              /\ enc'.literal_indicator_byte_ >= 0) =>
                /\ enc'.literal_indicator_byte_ = Len(enc.bit_writer_.buffer)
                /\ enc'.literal_count_ = 8]_vars

\* a literal run has been closed at 63 groups and the eight values put after
\* it have opened a new literal run at the byte that follows
C28_Witness ==
    /\ op.name = "Put"
    /\ enc.written_groups = <<MaxLiteralGroups>>
    /\ enc.literal_indicator_byte_ = MaxLiteralGroups + 1
    /\ enc.literal_count_ = 8

RECURSIVE LastRun(_, _, _, _)
\* the last run of buffer from `byte` on: whether it is a literal run, and
\* the number of values the runs before it hold; `last` is returned for a
\* buffer with no run from `byte` on
LastRun(buffer, byte, before, last) ==
    LET g == BitReader_GetVlqInt([buffer |-> buffer, pos |-> 8 * byte])
        next == g.r.pos \div 8
        count == g.val \div 2
    IN  IF ~g.ok THEN last
        ELSE IF g.val % 2 = 1
             THEN LastRun(buffer, next + count, before + (8 * count),
                          [is_literal |-> TRUE, before |-> before])
             ELSE LastRun(buffer, next + 1, before + count,
                          [is_literal |-> FALSE, before |-> before])

\* the number of padding values C30 gives for the stream in buffer that
\* encodes the sequence S
Padding(buffer, S) ==
    LET last == LastRun(buffer, 0, 0, [is_literal |-> FALSE, before |-> 0])
    IN  IF last.is_literal
        THEN CHOOSE q \in 0..7 : ((Len(S) - last.before) + q) % 8 = 0
        ELSE 0

\* C30: the stream written for S by the Put calls and one Flush holds S
\* followed by p values false and nothing else, p being 0 when the last run
\* is a repeated run and otherwise the least number in 0..7 that brings the
\* values of the last literal run to a multiple of 8; Get returns these
\* |S| + p values in order and then false.
C30_Padding ==
    phase = "decode" =>
        LET buffer == dec.bit_reader_.buffer
            pad == Padding(buffer, plan)
        IN  /\ StreamValues(buffer, 0) = plan \o [k \in 1..pad |-> FALSE]
            /\ Total = Len(plan) + pad
            /\ op.name = "Get" =>
                   /\ op.ret <=> op.before < Len(plan) + pad
                   /\ op.ret => op.val = (IF op.before < Len(plan) THEN plan[op.before + 1]
                                                                    ELSE FALSE)
                   /\ ~op.failed

\* a stream of a repeated run of nine values and a literal run of four has
\* been read by Get to its end, the thirteen values put and four padding
\* values after them, and the Get after that has returned false
C30_Witness ==
    /\ phase = "decode"
    /\ op.name = "Get" /\ ~op.ret
    /\ hist.name = "Get"
    /\ Len(plan) = 13
    /\ consumed = 17
    /\ dec.bit_reader_.buffer[1] = 18

\* the locks whose write flag thread t has set and not cleared
HeldBy(t) == {i \in Cpus : locks_[i].writer = t}

\* C29: percpu_rwlock::try_lock returns true only with the write flag of
\* every per-CPU lock set, by the caller, and no reader in any of them; when
\* it has returned false no lock is left with a write flag the caller set,
\* although the call may have set some; while it runs the caller holds
\* exactly the locks below the one it is at, or those up to the one it is
\* about to release; no unlock it makes is of a lock whose write flag another
\* thread set or that is not write-locked (no DCHECK fails).
C29_AllOrNothing ==
    phase \in {"percpu", "abort"} =>
        /\ phase = "percpu"
        /\ \A t \in PerCpuThreads :
               LET c == callers[t]
               IN  /\ ~c.foreign
                   /\ (c.pc = "locked" /\ c.last.called) =>
                          /\ c.last.ret
                          /\ HeldBy(t) = Cpus
                          /\ \A i \in Cpus : locks_[i].lock = kWriteFlag
                   /\ (c.pc = "idle" /\ c.last.called) =>
                          /\ ~c.last.ret
                          /\ HeldBy(t) = {}
                   /\ c.pc \in {"try_lock", "try_lock_load"} => HeldBy(t) = 0..(c.i - 1)
                   /\ c.pc \in {"try_lock_wait", "try_lock_release"} => HeldBy(t) = 0..c.i
        /\ \A i \in Cpus : locks_[i].lock.write_flag <=> locks_[i].writer # 0

\* a try_lock has returned false after it had taken the first lock, because
\* another thread holds the write flag of the second; a reader holds the
\* first lock, which the call has released
C29_Witness ==
    /\ phase = "percpu"
    /\ \E t \in PerCpuThreads :
           /\ callers[t].pc = "idle"
           /\ callers[t].last = Returned(FALSE, 1)
           /\ locks_[1].writer \notin {0, t}
           /\ locks_[0].lock = [write_flag |-> FALSE, num_readers |-> 1]

====
